---- MODULE Spec2Model ----
(***************************************************************************)
(* Continuation engine of the Fift interpreter core (src/core/cont.rs,     *)
(* src/core/lexer.rs): reference-counted continuation nodes stepped by a   *)
(* flat trampoline, with in-place mutation of uniquely owned nodes.        *)
(***************************************************************************)
EXTENDS Integers, Sequences, FiniteSets, TLC

VARIABLES
    heap,       \* Rc allocations: node id -> continuation node
    lists,      \* Rc<WordList> allocations: list id -> items (node ids)
    cur,        \* the trampoline's current continuation (0 = none)
    next,       \* ctx.next (0 = none)
    stack,      \* ctx.stack, bottom first
    trace,      \* names of the native words executed so far, in order
    pc,         \* "run" | "done" | "error"
    ext,        \* nodes that have an owner outside the engine (dictionary, caller)
    blocks,     \* ctx.input: the lexer's stack of source blocks, top last
    dictionary, \* ctx.dictionary: word -> entry
    exit_interpret, \* ctx.exit_interpret: the stored continuation (0 before any store)
    state,      \* ctx.state: the compile depth, 0 = interpret
    compiled,   \* the word-list under construction
    last,       \* the locals of the latest InterpreterCont step
    cfg         \* the scenario this run was loaded from

vars == <<heap, lists, cur, next, stack, trace, pc, ext, blocks, dictionary,
          exit_interpret, state, compiled, last, cfg>>

(* ------------------------------ bounds --------------------------------- *)
MaxItems == 3
MaxCount == 3
MaxLimit == 5
MaxLine == 3
Fuel == 64

(* ------------------------------ nodes ---------------------------------- *)
None == 0

Blank ==
    [kind |-> "none", first |-> None, second |-> None, list |-> None,
     after |-> None, pos |-> 0, body |-> None, count |-> 0,
     condition |-> None, running_body |-> FALSE, op |-> "", arg |-> 0]

SeqCont(first, second) ==
    [Blank EXCEPT !.kind = "SeqCont", !.first = first, !.second = second]

ListCont(list, after, pos) ==
    [Blank EXCEPT !.kind = "ListCont", !.list = list, !.after = after, !.pos = pos]

TimesCont(body, after, count) ==
    [Blank EXCEPT !.kind = "TimesCont", !.body = body, !.after = after, !.count = count]

UntilCont(body, after) ==
    [Blank EXCEPT !.kind = "UntilCont", !.body = body, !.after = after]

WhileCont(condition, body, after, running_body) ==
    [Blank EXCEPT !.kind = "WhileCont", !.condition = condition, !.body = body,
                  !.after = after, !.running_body = running_body]

StackWordFunc(op, arg) ==
    [Blank EXCEPT !.kind = "StackWordFunc", !.op = op, !.arg = arg]

ContextWordFunc(op, arg) ==
    [Blank EXCEPT !.kind = "ContextWordFunc", !.op = op, !.arg = arg]

InterpreterCont == [Blank EXCEPT !.kind = "InterpreterCont"]
CompileExecuteCont == [Blank EXCEPT !.kind = "CompileExecuteCont"]

(* The machine: everything a step reads or writes, as one record. *)
Machine ==
    [heap |-> heap, lists |-> lists, cur |-> cur, next |-> next,
     stack |-> stack, trace |-> trace, pc |-> pc, ext |-> ext,
     blocks |-> blocks, dictionary |-> dictionary,
     exit_interpret |-> exit_interpret, state |-> state, compiled |-> compiled,
     last |-> last]

(* Rc::new: the new node gets the next free id. *)
NewId(m) == Len(m.heap) + 1
RcNew(m, node) == [m EXCEPT !.heap = Append(@, node)]

(* --------------------------- reference counts -------------------------- *)
ContFields == {"first", "second", "after", "body", "condition"}

\* the Rc<dyn ContImpl> held by node n, as (field, target) pairs
NodeRefs(m, n) == {<<f, m.heap[n][f]>> : f \in {g \in ContFields : m.heap[n][g] # None}}

ListOf(m, n) == IF m.heap[n].kind = "ListCont" THEN {m.heap[n].list} ELSE {}

Children(m, n) ==
    {r[2] : r \in NodeRefs(m, n)}
    \cup UNION {{m.lists[l][i] : i \in 1..Len(m.lists[l])} : l \in ListOf(m, n)}

StackConts(m) == {i \in 1..Len(m.stack) : m.stack[i].ty = "cont"}

\* owners outside the heap: the trampoline (or the running step's self),
\* ctx.next, values on the stack, the exit_interpret cell, external owners
RootRefs(m) ==
    {<<"cur", 0, n>> : n \in {m.cur} \ {None}}
    \cup {<<"next", 0, n>> : n \in {m.next} \ {None}}
    \cup {<<"stack", i, m.stack[i].val>> : i \in StackConts(m)}
    \cup {<<"exit", 0, n>> : n \in {m.exit_interpret} \ {None}}
    \cup {<<"ext", 0, n>> : n \in m.ext}

RECURSIVE Closure(_, _)
Closure(m, S) ==
    LET T == S \cup UNION {Children(m, n) : n \in S}
    IN IF T = S THEN S ELSE Closure(m, T)

\* allocations not yet freed
Live(m) == Closure(m, {r[3] : r \in RootRefs(m)})

LiveLists(m) == UNION {ListOf(m, n) : n \in Live(m)}

\* Rc::strong_count
StrongCount(m, n) ==
    Cardinality({r \in RootRefs(m) : r[3] = n})
    + Cardinality({<<k, f>> \in Live(m) \X ContFields : m.heap[k][f] = n})
    + Cardinality(UNION {{<<l, i>> : i \in {j \in 1..Len(m.lists[l]) : m.lists[l][j] = n}} :
                             l \in LiveLists(m)})

\* mutant: the uniqueness test always succeeds
RcGetMut_always(m, self) == TRUE

\* Rc::get_mut(&mut self) succeeds iff self is the only owner
RcGetMut(m, self) == StrongCount(m, self) = 1

(* ------------------------------ Context -------------------------------- *)
\* Context::insert_before_next(cont): folds ctx.next into the slot `cont`
insert_before_next(m, cont) ==
    IF m.next # None
    THEN IF cont # None
         THEN [m |-> [RcNew(m, SeqCont(cont, m.next)) EXCEPT !.next = None],
               cont |-> NewId(m)]
         ELSE [m |-> [m EXCEPT !.next = None], cont |-> m.next]
    ELSE [m |-> m, cont |-> cont]

\* SeqCont::make
SeqCont_make(m, first, second) ==
    IF second = None
    THEN [m |-> m, cont |-> first]
    ELSE [m |-> RcNew(m, SeqCont(first, second)), cont |-> NewId(m)]

\* mutant: the unique branch puts the old ctx.next before second
SeqCont_run_tailfirst(m) ==
    LET self == m.cur
        this == m.heap[self]
    IN IF RcGetMut(m, self)
       THEN IF m.next = None
            THEN [m EXCEPT !.next = this.second, !.cur = this.first,
                           !.heap[self].second = None, !.heap[self].first = None]
            ELSE [m EXCEPT !.heap[self].first = m.next,
                           !.heap[self].second = this.second,
                           !.next = self, !.cur = this.first]
       ELSE LET r == SeqCont_make(m, this.second, m.next)
            IN [r.m EXCEPT !.next = r.cont, !.cur = this.first]

\* mutant: the shared branch replaces ctx.next by second
SeqCont_run_overwrite(m) ==
    LET self == m.cur
        this == m.heap[self]
    IN IF RcGetMut(m, self)
       THEN IF m.next = None
            THEN [m EXCEPT !.next = this.second, !.cur = this.first,
                           !.heap[self].second = None, !.heap[self].first = None]
            ELSE [m EXCEPT !.heap[self].first = this.second,
                           !.heap[self].second = m.next,
                           !.next = self, !.cur = this.first]
       ELSE [m EXCEPT !.next = this.second, !.cur = this.first]

(* ------------------------------ SeqCont -------------------------------- *)
SeqCont_run(m) ==
    LET self == m.cur
        this == m.heap[self]
    IN IF RcGetMut(m, self)
       THEN IF m.next = None
            THEN [m EXCEPT !.next = this.second, !.cur = this.first,
                           !.heap[self].second = None, !.heap[self].first = None]
            ELSE [m EXCEPT !.heap[self].first = this.second,
                           !.heap[self].second = m.next,
                           !.next = self, !.cur = this.first]
       ELSE LET r == SeqCont_make(m, this.second, m.next)
            IN [r.m EXCEPT !.next = r.cont, !.cur = this.first]

\* mutant: is_last is computed one item too early
ListCont_run_early(m) ==
    LET self == m.cur
        this == m.heap[self]
        items == m.lists[this.list]
        is_last == this.pos + 2 >= Len(items)
    IN IF this.pos >= Len(items)
       THEN [m EXCEPT !.cur = m.next, !.next = None]
       ELSE LET current == items[this.pos + 1] IN
            IF RcGetMut(m, self)
            THEN LET r == insert_before_next(m, this.after)
                     m1 == [r.m EXCEPT !.heap[self].after = r.cont,
                                       !.heap[self].pos = this.pos + 1]
                 IN IF is_last
                    THEN [m1 EXCEPT !.next = r.cont, !.heap[self].after = None,
                                    !.cur = current]
                    ELSE [m1 EXCEPT !.next = self, !.cur = current]
            ELSE IF m.next # None
                 THEN LET r == SeqCont_make(m, this.after, m.next)
                          m1 == RcNew(r.m, ListCont(this.list, r.cont, this.pos + 1))
                      IN [m1 EXCEPT !.next = NewId(r.m), !.cur = current]
                 ELSE IF is_last
                      THEN [m EXCEPT !.next = this.after, !.cur = current]
                      ELSE LET m1 == RcNew(m, ListCont(this.list, this.after, this.pos + 1))
                           IN [m1 EXCEPT !.next = NewId(m), !.cur = current]

(* ------------------------------ ListCont ------------------------------- *)
ListCont_run(m) ==
    LET self == m.cur
        this == m.heap[self]
        items == m.lists[this.list]
        is_last == this.pos + 1 >= Len(items)
    IN IF this.pos >= Len(items)
       THEN [m EXCEPT !.cur = m.next, !.next = None]
       ELSE LET current == items[this.pos + 1] IN
            IF RcGetMut(m, self)
            THEN LET r == insert_before_next(m, this.after)
                     m1 == [r.m EXCEPT !.heap[self].after = r.cont,
                                       !.heap[self].pos = this.pos + 1]
                 IN IF is_last
                    THEN [m1 EXCEPT !.next = r.cont, !.heap[self].after = None,
                                    !.cur = current]
                    ELSE [m1 EXCEPT !.next = self, !.cur = current]
            ELSE IF m.next # None
                 THEN LET r == SeqCont_make(m, this.after, m.next)
                          m1 == RcNew(r.m, ListCont(this.list, r.cont, this.pos + 1))
                      IN [m1 EXCEPT !.next = NewId(r.m), !.cur = current]
                 ELSE IF is_last
                      THEN [m EXCEPT !.next = this.after, !.cur = current]
                      ELSE LET m1 == RcNew(m, ListCont(this.list, this.after, this.pos + 1))
                           IN [m1 EXCEPT !.next = NewId(m), !.cur = current]

(* ------------------------------- Stack --------------------------------- *)
IntVal(v) == [ty |-> "int", val |-> v]
ContVal(c) == [ty |-> "cont", val |-> c]
BoolVal(b) == IntVal(IF b THEN -1 ELSE 0)

Top(st) == st[Len(st)]
Pop(st) == SubSeq(st, 1, Len(st) - 1)

\* Stack::pop_bool: an integer is popped, non-zero is true
pop_bool_ok(m) == Len(m.stack) > 0 /\ Top(m.stack).ty = "int"
pop_bool(m) == Top(m.stack).val # 0
Fail(m) == [m EXCEPT !.pc = "error", !.cur = None]

\* mutant: the unique branch re-enqueues the node before it folds ctx.next
\* into after
TimesCont_run_requeue_first(m) ==
    LET self == m.cur
        this == m.heap[self]
    IN IF RcGetMut(m, self)
       THEN IF this.count > 1
            THEN LET r == insert_before_next([m EXCEPT !.next = self], this.after)
                 IN [r.m EXCEPT !.heap[self].after = r.cont,
                                !.heap[self].count = this.count - 1,
                                !.next = self, !.cur = this.body]
            ELSE LET r == insert_before_next(m, this.after)
                 IN [r.m EXCEPT !.next = r.cont, !.heap[self].after = None,
                                !.cur = this.body, !.heap[self].body = None]
       ELSE LET r == SeqCont_make(m, this.after, m.next)
            IN IF this.count > 1
               THEN LET m1 == RcNew(r.m, TimesCont(this.body, r.cont, this.count - 1))
                    IN [m1 EXCEPT !.next = NewId(r.m), !.cur = this.body]
               ELSE [r.m EXCEPT !.next = r.cont, !.cur = this.body]

\* mutant: the loop test is count > 0
TimesCont_run_extra(m) ==
    LET self == m.cur
        this == m.heap[self]
    IN IF RcGetMut(m, self)
       THEN LET r == insert_before_next(m, this.after)
                m1 == [r.m EXCEPT !.heap[self].after = r.cont]
            IN IF this.count > 0
               THEN [m1 EXCEPT !.heap[self].count = this.count - 1,
                               !.next = self, !.cur = this.body]
               ELSE [m1 EXCEPT !.next = r.cont, !.heap[self].after = None,
                               !.cur = this.body, !.heap[self].body = None]
       ELSE LET r == SeqCont_make(m, this.after, m.next)
            IN IF this.count > 0
               THEN LET m1 == RcNew(r.m, TimesCont(this.body, r.cont, this.count - 1))
                    IN [m1 EXCEPT !.next = NewId(r.m), !.cur = this.body]
               ELSE [r.m EXCEPT !.next = r.cont, !.cur = this.body]

(* ------------------------------ TimesCont ------------------------------ *)
TimesCont_run(m) ==
    LET self == m.cur
        this == m.heap[self]
    IN IF RcGetMut(m, self)
       THEN LET r == insert_before_next(m, this.after)
                m1 == [r.m EXCEPT !.heap[self].after = r.cont]
            IN IF this.count > 1
               THEN [m1 EXCEPT !.heap[self].count = this.count - 1,
                               !.next = self, !.cur = this.body]
               ELSE [m1 EXCEPT !.next = r.cont, !.heap[self].after = None,
                               !.cur = this.body, !.heap[self].body = None]
       ELSE LET r == SeqCont_make(m, this.after, m.next)
            IN IF this.count > 1
               THEN LET m1 == RcNew(r.m, TimesCont(this.body, r.cont, this.count - 1))
                    IN [m1 EXCEPT !.next = NewId(r.m), !.cur = this.body]
               ELSE [r.m EXCEPT !.next = r.cont, !.cur = this.body]

\* mutant: a failed pop_bool loses the tail
UntilCont_run_lossy(m) ==
    LET self == m.cur
        this == m.heap[self]
    IN IF ~pop_bool_ok(m) THEN [Fail(m) EXCEPT !.next = None]
       ELSE LET m0 == [m EXCEPT !.stack = Pop(@)] IN
            IF pop_bool(m)
            THEN IF RcGetMut(m0, self)
                 THEN [m0 EXCEPT !.cur = this.after, !.heap[self].after = None]
                 ELSE [m0 EXCEPT !.cur = this.after]
            ELSE IF RcGetMut(m0, self)
                 THEN LET r == insert_before_next(m0, this.after)
                      IN [r.m EXCEPT !.heap[self].after = r.cont,
                                     !.next = self, !.cur = this.body]
                 ELSE IF m0.next # None
                      THEN LET r == SeqCont_make(m0, this.after, m0.next)
                               m1 == RcNew(r.m, UntilCont(this.body, r.cont))
                           IN [m1 EXCEPT !.next = NewId(r.m), !.cur = this.body]
                      ELSE [m0 EXCEPT !.next = self, !.cur = this.body]

\* mutant: the loop ends on false
UntilCont_run_inverted(m) ==
    LET self == m.cur
        this == m.heap[self]
    IN IF ~pop_bool_ok(m) THEN Fail(m)
       ELSE LET m0 == [m EXCEPT !.stack = Pop(@)] IN
            IF ~pop_bool(m)
            THEN IF RcGetMut(m0, self)
                 THEN [m0 EXCEPT !.cur = this.after, !.heap[self].after = None]
                 ELSE [m0 EXCEPT !.cur = this.after]
            ELSE IF RcGetMut(m0, self)
                 THEN LET r == insert_before_next(m0, this.after)
                      IN [r.m EXCEPT !.heap[self].after = r.cont,
                                     !.next = self, !.cur = this.body]
                 ELSE IF m0.next # None
                      THEN LET r == SeqCont_make(m0, this.after, m0.next)
                               m1 == RcNew(r.m, UntilCont(this.body, r.cont))
                           IN [m1 EXCEPT !.next = NewId(r.m), !.cur = this.body]
                      ELSE [m0 EXCEPT !.next = self, !.cur = this.body]

(* ------------------------------ UntilCont ------------------------------ *)
UntilCont_run(m) ==
    LET self == m.cur
        this == m.heap[self]
    IN IF ~pop_bool_ok(m) THEN Fail(m)
       ELSE LET m0 == [m EXCEPT !.stack = Pop(@)] IN
            IF pop_bool(m)
            THEN IF RcGetMut(m0, self)
                 THEN [m0 EXCEPT !.cur = this.after, !.heap[self].after = None]
                 ELSE [m0 EXCEPT !.cur = this.after]
            ELSE IF RcGetMut(m0, self)
                 THEN LET r == insert_before_next(m0, this.after)
                      IN [r.m EXCEPT !.heap[self].after = r.cont,
                                     !.next = self, !.cur = this.body]
                 ELSE IF m0.next # None
                      THEN LET r == SeqCont_make(m0, this.after, m0.next)
                               m1 == RcNew(r.m, UntilCont(this.body, r.cont))
                           IN [m1 EXCEPT !.next = NewId(r.m), !.cur = this.body]
                      ELSE [m0 EXCEPT !.next = self, !.cur = this.body]

\* mutant: the loop ends when the condition left true
WhileCont_run_inverted(m) ==
    LET self == m.cur
        this == m.heap[self]
    IN IF this.running_body /\ ~pop_bool_ok(m) THEN Fail(m)
       ELSE LET m0 == IF this.running_body THEN [m EXCEPT !.stack = Pop(@)] ELSE m IN
            IF this.running_body /\ pop_bool(m)
            THEN IF RcGetMut(m0, self)
                 THEN [m0 EXCEPT !.cur = this.after, !.heap[self].after = None]
                 ELSE [m0 EXCEPT !.cur = this.after]
            ELSE LET cont == IF this.running_body THEN this.body ELSE this.condition IN
                 IF RcGetMut(m0, self)
                 THEN LET r == insert_before_next(m0, this.after)
                      IN [r.m EXCEPT !.heap[self].after = r.cont,
                                     !.heap[self].running_body = ~this.running_body,
                                     !.next = self, !.cur = cont]
                 ELSE LET r == SeqCont_make(m0, this.after, m0.next)
                          m1 == RcNew(r.m, WhileCont(this.condition, this.body, r.cont,
                                                     ~this.running_body))
                      IN [m1 EXCEPT !.next = NewId(r.m), !.cur = cont]

(* ------------------------------ WhileCont ------------------------------ *)
WhileCont_run(m) ==
    LET self == m.cur
        this == m.heap[self]
    IN IF this.running_body /\ ~pop_bool_ok(m) THEN Fail(m)
       ELSE LET m0 == IF this.running_body THEN [m EXCEPT !.stack = Pop(@)] ELSE m IN
            IF this.running_body /\ ~pop_bool(m)
            THEN IF RcGetMut(m0, self)
                 THEN [m0 EXCEPT !.cur = this.after, !.heap[self].after = None]
                 ELSE [m0 EXCEPT !.cur = this.after]
            ELSE LET cont == IF this.running_body THEN this.body ELSE this.condition IN
                 IF RcGetMut(m0, self)
                 THEN LET r == insert_before_next(m0, this.after)
                      IN [r.m EXCEPT !.heap[self].after = r.cont,
                                     !.heap[self].running_body = ~this.running_body,
                                     !.next = self, !.cur = cont]
                 ELSE LET r == SeqCont_make(m0, this.after, m0.next)
                          m1 == RcNew(r.m, WhileCont(this.condition, this.body, r.cont,
                                                     ~this.running_body))
                      IN [m1 EXCEPT !.next = NewId(r.m), !.cur = cont]

(* ------------------------------- Lexer --------------------------------- *)
\* Text is a sequence of UTF-8 bytes; "C3" "A9" is one two-byte character.
IsContinuation(byte) == byte = "A9"
\* mutant: a line break is not whitespace
is_whitespace_blank_only(byte) == byte = " "

is_whitespace(byte) == byte \in {" ", "\n"}

\* str::is_char_boundary
IsCharBoundary(str, i) == i = 0 \/ i = Len(str) \/ (i < Len(str) /\ ~IsContinuation(str[i + 1]))

SetMin(S) == CHOOSE x \in S : \A y \in S : x <= y
SetMax(S) == CHOOSE x \in S : \A y \in S : x >= y

SourceBlockState(buffer) ==
    [buffer |-> buffer, line |-> << >>, line_offset |-> 0, prev_line_offset |-> 0,
     line_number |-> -1]

\* SourceBlockState::read_line; line_number -1 stands for None
read_line(b) ==
    LET got == IF Len(b.buffer) > 0 THEN Head(b.buffer) ELSE << >>
    IN [b |-> [b EXCEPT !.prev_line_offset = 0, !.line_offset = 0, !.line = got,
                        !.buffer = IF Len(b.buffer) > 0 THEN Tail(b.buffer) ELSE << >>,
                        !.line_number = b.line_number + 1],
        ok |-> Len(got) > 0]

\* SourceBlockState::skip_while: the characters from line_offset on, by
\* char_indices; stops at the first one the predicate rejects. The predicate
\* is given by the set of bytes it accepts.
skip_while(b, accepted) ==
    LET stops == {j \in b.line_offset..(Len(b.line) - 1) :
                     ~IsContinuation(b.line[j + 1]) /\ b.line[j + 1] \notin accepted}
    IN [b EXCEPT !.line_offset = IF stops = {} THEN Len(b.line) ELSE SetMin(stops)]

not_whitespace(line) == {line[j] : j \in 1..Len(line)} \ {byte \in {" ", "\n"} : is_whitespace(byte)}
skip_line_whitespace(b) == skip_while(b, {byte \in {b.line[j] : j \in 1..Len(b.line)} : is_whitespace(byte)})
skip_until_whitespace(b) == skip_while(b, not_whitespace(b.line))

NoToken == [some |-> FALSE, data |-> << >>, start |-> 0]

\* the loop of SourceBlockState::scan_word
RECURSIVE scan_word_loop(_)
scan_word_loop(b) ==
    LET need == Len(b.line) = 0 \/ b.line_offset >= Len(b.line)
    IN CHOOSE res \in
         { IF need /\ ~r.ok
           THEN [b |-> r.b, token |-> NoToken]
           ELSE CHOOSE res1 \in
                  { CHOOSE res2 \in
                      { LET start == b1.line_offset
                            end == b2.line_offset
                        IN IF start = end
                           THEN scan_word_loop(b2)
                           ELSE [b |-> b2,
                                 token |-> [some |-> TRUE,
                                            data |-> SubSeq(b2.line, start + 1, end),
                                            start |-> start]]
                        : b2 \in {skip_until_whitespace(b1)} } : TRUE
                    : b1 \in {skip_line_whitespace(IF need THEN r.b ELSE b)} } : TRUE
           : r \in {read_line(b)} } : TRUE

\* SourceBlockState::scan_word
SourceBlockState_scan_word(b) ==
    scan_word_loop([b EXCEPT !.prev_line_offset = b.line_offset])

\* SourceBlockState::rewind
SourceBlockState_rewind(b, offset) == [b EXCEPT !.line_offset = b.line_offset - offset]

\* Lexer::push_source_block
Lexer_push_source_block(bl, buffer) == Append(bl, SourceBlockState(buffer))

\* mutant: popping drops every block
Lexer_pop_source_block_all(bl) == << >>

\* Lexer::pop_source_block: the blocks left
Lexer_pop_source_block(bl) == IF Len(bl) = 0 THEN bl ELSE SubSeq(bl, 1, Len(bl) - 1)

\* Lexer::rewind
Lexer_rewind(bl, offset) ==
    IF Len(bl) = 0 THEN bl
    ELSE [bl EXCEPT ![Len(bl)] = SourceBlockState_rewind(bl[Len(bl)], offset)]

\* SourceBlockState::skip_symbol: past one character
skip_symbol(b) ==
    LET later == {j \in (b.line_offset + 1)..(Len(b.line) - 1) : ~IsContinuation(b.line[j + 1])}
    IN [b EXCEPT !.line_offset = IF later = {} THEN Len(b.line) ELSE SetMin(later)]

\* SourceBlockState::skip_until for a delimiter character
skip_until(b, delimiter) == skip_while(b, {b.line[j] : j \in 1..Len(b.line)} \ {delimiter})

\* mutant: when the delimiter is not found the offset is put back
SourceBlockState_scan_until_restoring(b, delimiter) ==
    LET need == Len(b.line) = 0 \/ b.line_offset >= Len(b.line)
    IN CHOOSE res \in
         { IF need /\ ~r.ok
           THEN [b |-> r.b, token |-> NoToken]
           ELSE CHOOSE res1 \in
                  { CHOOSE res2 \in
                      { LET start == b1.line_offset
                            end == b2.line_offset
                            found == end < Len(b2.line)
                        IN IF found /\ end >= start
                           THEN [b |-> skip_symbol(b2),
                                 token |-> [some |-> TRUE,
                                            data |-> SubSeq(b2.line, start + 1, end),
                                            start |-> start]]
                           ELSE [b |-> b1, token |-> NoToken]
                        : b2 \in {skip_until(b1, delimiter)} } : TRUE
                    : b1 \in {IF need THEN r.b ELSE [b EXCEPT !.prev_line_offset = b.line_offset]} } : TRUE
           : r \in {read_line([b EXCEPT !.prev_line_offset = b.line_offset])} } : TRUE

\* SourceBlockState::scan_until for a delimiter character
SourceBlockState_scan_until(b, delimiter) ==
    LET need == Len(b.line) = 0 \/ b.line_offset >= Len(b.line)
    IN CHOOSE res \in
         { IF need /\ ~r.ok
           THEN [b |-> r.b, token |-> NoToken]
           ELSE CHOOSE res1 \in
                  { CHOOSE res2 \in
                      { LET start == b1.line_offset
                            end == b2.line_offset
                            found == end < Len(b2.line)
                        IN IF found /\ end >= start
                           THEN [b |-> skip_symbol(b2),
                                 token |-> [some |-> TRUE,
                                            data |-> SubSeq(b2.line, start + 1, end),
                                            start |-> start]]
                           ELSE [b |-> b2, token |-> NoToken]
                        : b2 \in {skip_until(b1, delimiter)} } : TRUE
                    : b1 \in {IF need THEN r.b ELSE [b EXCEPT !.prev_line_offset = b.line_offset]} } : TRUE
           : r \in {read_line([b EXCEPT !.prev_line_offset = b.line_offset])} } : TRUE

\* SourceBlockState::skip_whitespace
RECURSIVE SourceBlockState_skip_whitespace_loop(_)
SourceBlockState_skip_whitespace_loop(b) ==
    LET need == Len(b.line) = 0 \/ b.line_offset >= Len(b.line)
    IN CHOOSE res \in
         { IF need /\ ~r.ok
           THEN r.b
           ELSE CHOOSE res1 \in
                  { IF b1.line_offset < Len(b1.line)
                    THEN b1
                    ELSE SourceBlockState_skip_whitespace_loop(b1)
                    : b1 \in {skip_line_whitespace(IF need THEN r.b ELSE b)} } : TRUE
           : r \in {read_line(b)} } : TRUE

SourceBlockState_skip_whitespace(b) ==
    SourceBlockState_skip_whitespace_loop([b EXCEPT !.prev_line_offset = b.line_offset])

\* Lexer::scan_skip_whitespace, skip_symbol, skip_while: on the last block,
\* nothing without one
Lexer_scan_skip_whitespace(bl) ==
    IF Len(bl) = 0 THEN bl
    ELSE [bl EXCEPT ![Len(bl)] = SourceBlockState_skip_whitespace(bl[Len(bl)])]

Lexer_skip_symbol(bl) ==
    IF Len(bl) = 0 THEN bl ELSE [bl EXCEPT ![Len(bl)] = skip_symbol(bl[Len(bl)])]

Lexer_skip_while(bl, accepted) ==
    IF Len(bl) = 0 THEN bl ELSE [bl EXCEPT ![Len(bl)] = skip_while(bl[Len(bl)], accepted)]

\* Lexer::get_position: the start and the end of the last token in the line
Lexer_get_position(bl) ==
    LET input == bl[Len(bl)]
    IN [offset |-> Len(bl),
        line_offset_start |-> IF input.prev_line_offset + 1 < input.line_offset
                              THEN input.prev_line_offset + 1 ELSE input.line_offset,
        line_offset_end |-> input.line_offset,
        line_number |-> IF input.line_number < 0 THEN 0 ELSE input.line_number]

\* the null character
NullChar == "00"

\* Lexer::scan_word: without a block there is no token
Lexer_scan_word(bl) ==
    IF Len(bl) = 0 THEN [blocks |-> bl, token |-> NoToken]
    ELSE CHOOSE res \in
           { [blocks |-> [bl EXCEPT ![Len(bl)] = sw.b], token |-> sw.token]
             : sw \in {SourceBlockState_scan_word(bl[Len(bl)])} } : TRUE

\* Lexer::scan_until_delimiter
Lexer_scan_until_delimiter(bl, delimiter) ==
    IF Len(bl) = 0 THEN [blocks |-> bl, res |-> "UnexpectedEof", token |-> NoToken]
    ELSE CHOOSE res \in
           { [blocks |-> [bl EXCEPT ![Len(bl)] = su.b],
              res |-> IF su.token.some \/ delimiter = NullChar THEN "ok" ELSE "UnexpectedEof",
              token |-> IF su.token.some THEN su.token
                        ELSE [some |-> delimiter = NullChar, data |-> << >>, start |-> 0]]
             : su \in {SourceBlockState_scan_until(bl[Len(bl)], delimiter)} } : TRUE

\* Subtokens::next applied until it returns none: the token, then the token
\* without its last character, and so on
RECURSIVE Subtokens(_)
Subtokens(str) ==
    IF Len(str) = 0 THEN << >>
    ELSE CHOOSE r \in
           { << str >> \o Subtokens(rest)
             : rest \in {SubSeq(str, 1, SetMax({j \in 0..(Len(str) - 1) :
                                                  ~IsContinuation(str[j + 1])}))} } : TRUE

\* mutant: the difference is counted in characters, not bytes
Token_delta_chars(data, subtoken) ==
    Cardinality({j \in 1..Len(data) : ~IsContinuation(data[j])})
    - Cardinality({j \in 1..Len(subtoken) : ~IsContinuation(subtoken[j])})

\* Token::delta
Token_delta(data, subtoken) == Len(data) - Len(subtoken)

(* --------------------------- number literals --------------------------- *)
Digits == << "0", "1", "2", "3", "4", "5", "6", "7", "8", "9",
             "a", "b", "c", "d", "e", "f" >>
UpperDigits == << "0", "1", "2", "3", "4", "5", "6", "7", "8", "9",
                  "A", "B", "C", "D", "E", "F" >>

DigitValue(byte, radix) ==
    LET hit == {i \in 1..radix : Digits[i] = byte \/ UpperDigits[i] = byte}
    IN IF hit = {} THEN -1 ELSE SetMin(hit) - 1

is_ascii_digit(byte) == DigitValue(byte, 10) >= 0
StartsWith(str, prefix) == Len(str) >= Len(prefix) /\ SubSeq(str, 1, Len(prefix)) = prefix
Strip(str, prefix) == SubSeq(str, Len(prefix) + 1, Len(str))

RECURSIVE DigitsValue(_, _, _)
DigitsValue(str, radix, acc) ==
    IF Len(str) = 0 THEN acc
    ELSE DigitsValue(Tail(str), radix, acc * radix + DigitValue(Head(str), radix))

\* BigInt::from_str_radix: an optional sign, then at least one digit of the radix
from_str_radix(str, radix) ==
    LET neg == StartsWith(str, << "-" >>)
        body == IF neg \/ StartsWith(str, << "+" >>) THEN Tail(str) ELSE str
        ok == Len(body) > 0 /\ \A i \in 1..Len(body) : DigitValue(body[i], radix) >= 0
    IN [ok |-> ok,
        val |-> IF ~ok THEN 0
                ELSE (IF neg THEN -1 ELSE 1) * DigitsValue(body, radix, 0)]

\* ImmediateInt::parse_single_number: "some" | "none" | "err"
parse_single_number(str) ==
    LET neg == StartsWith(str, << "-" >>)
        s1 == IF neg THEN Tail(str) ELSE str
        decimal == \A i \in 1..Len(s1) : is_ascii_digit(s1[i])
        r == IF StartsWith(s1, << "0", "x" >>) THEN from_str_radix(Strip(s1, << "0", "x" >>), 16)
             ELSE IF StartsWith(s1, << "0", "b" >>) THEN from_str_radix(Strip(s1, << "0", "b" >>), 2)
             ELSE from_str_radix(s1, 10)
    IN IF ~StartsWith(s1, << "0", "x" >>) /\ ~StartsWith(s1, << "0", "b" >>) /\ ~decimal
       THEN [res |-> "none", val |-> 0]
       ELSE IF ~r.ok THEN [res |-> "err", val |-> 0]
       ELSE [res |-> "some", val |-> IF neg THEN -r.val ELSE r.val]

\* ImmediateInt::try_from_str
try_from_str(str) ==
    LET slashes == {i \in 1..Len(str) : str[i] = "/"}
    IN IF slashes # {}
       THEN LET at == SetMin(slashes)
                num == parse_single_number(SubSeq(str, 1, at - 1))
                denom == parse_single_number(SubSeq(str, at + 1, Len(str)))
            IN IF num.res # "some" THEN [res |-> num.res, num |-> 0, has_denom |-> FALSE, denom |-> 0]
               ELSE IF denom.res # "some"
                    THEN [res |-> "err", num |-> 0, has_denom |-> FALSE, denom |-> 0]
                    ELSE [res |-> "some", num |-> num.val, has_denom |-> TRUE,
                          denom |-> denom.val]
       ELSE LET num == parse_single_number(str)
            IN [res |-> num.res, num |-> num.val, has_denom |-> FALSE, denom |-> 0]

(* ---------------------- stack and context services --------------------- *)
\* Stack::push_argcount: the argument count, then the entry continuation
push_argcount(st, n, cont) == Append(Append(st, IntVal(n)), ContVal(cont))

\* Context::execute_stack_top: pops the entry and its argument count, checks
\* that many arguments are there, returns the entry
execute_stack_top(m) ==
    LET n == Len(m.stack)
        ok == /\ n >= 2 /\ m.stack[n].ty = "cont" /\ m.stack[n - 1].ty = "int"
              /\ m.stack[n - 1].val >= 0 /\ n - 2 >= m.stack[n - 1].val
    IN IF ~ok THEN Fail(m)
       ELSE [m EXCEPT !.stack = SubSeq(m.stack, 1, n - 2), !.cur = m.stack[n].val]

\* Context::compile_stack_top: pops the entry, its argument count and that
\* many arguments, and appends them to the word-list under construction
compile_stack_top(m) ==
    LET n == Len(m.stack)
        ok == /\ n >= 2 /\ m.stack[n].ty = "cont" /\ m.stack[n - 1].ty = "int"
              /\ m.stack[n - 1].val >= 0 /\ n - 2 >= m.stack[n - 1].val
        k == m.stack[n - 1].val
    IN IF ~ok THEN Fail(m)
       ELSE [m EXCEPT !.stack = SubSeq(m.stack, 1, n - 2 - k),
                      !.compiled = @ \o SubSeq(m.stack, n - 1 - k, n - 2)
                                     \o << m.stack[n] >>,
                      !.cur = None]

(* --------------------------- InterpreterCont --------------------------- *)
NopId == 1
CompileExecId == 2

NoLast == [via |-> "none", data |-> << >>, start |-> 0, sub |-> << >>, rewind |-> 0]

\* mutant: the interpreter is re-enqueued behind the tail
InterpreterCont_finish_behind(m) ==
    LET self == m.cur
        m1 == [m EXCEPT !.exit_interpret = IF m.next # None THEN m.next ELSE NopId]
        r == SeqCont_make(m1, m1.next, self)
    IN [r.m EXCEPT !.next = r.cont, !.cur = CompileExecId]

\* mutant: the interpreter is not re-enqueued before the tail
InterpreterCont_finish_once(m) ==
    [m EXCEPT !.exit_interpret = IF m.next # None THEN m.next ELSE NopId,
              !.cur = CompileExecId]

\* the tail of InterpreterCont::run after 'token: store exit_interpret,
\* re-enqueue self, yield the compile-execute shim
InterpreterCont_finish(m) ==
    LET self == m.cur
        m1 == [m EXCEPT !.exit_interpret = IF m.next # None THEN m.next ELSE NopId]
        r == SeqCont_make(m1, self, m1.next)
    IN [r.m EXCEPT !.next = r.cont, !.cur = CompileExecId]

\* mutant: for an active entry the interpreter is queued before the shim
InterpreterCont_entry_swapped(m, entry, rewind) ==
    LET self == m.cur
        m1 == [m EXCEPT !.blocks = Lexer_rewind(m.blocks, rewind)]
    IN IF entry.active
       THEN LET r1 == SeqCont_make(m1, CompileExecId, m1.next)
                r2 == SeqCont_make(r1.m, self, r1.cont)
            IN [r2.m EXCEPT !.next = r2.cont, !.cur = entry.definition]
       ELSE InterpreterCont_finish(
                [m1 EXCEPT !.stack = push_argcount(m1.stack, 0, entry.definition)])

\* InterpreterCont::run from the entry found to the end
InterpreterCont_entry(m, entry, rewind) ==
    LET self == m.cur
        m1 == [m EXCEPT !.blocks = Lexer_rewind(m.blocks, rewind)]
    IN IF entry.active
       THEN LET r1 == SeqCont_make(m1, self, m1.next)
                r2 == SeqCont_make(r1.m, CompileExecId, r1.cont)
            IN [r2.m EXCEPT !.next = r2.cont, !.cur = entry.definition]
       ELSE InterpreterCont_finish(
                [m1 EXCEPT !.stack = push_argcount(m1.stack, 0, entry.definition)])

\* the first subtoken found in the dictionary, as an index into Subtokens
FirstHit(m, data) ==
    CHOOSE r \in
      { IF hits = {} THEN 0 ELSE SetMin(hits)
        : hits \in { {i \in 1..Len(subs) : subs[i] \in DOMAIN m.dictionary}
                     : subs \in {Subtokens(data)} } } : TRUE

\* InterpreterCont::run from the token scanned to the end; the lookup and
\* the parse of the token are each computed once, as the code does
InterpreterCont_resolved(m1, token, hit, value) ==
    LET data == token.data
        word == data \o << " " >>
        seen == [NoLast EXCEPT !.data = data, !.start = token.start]
    IN IF hit # 0
       THEN LET subtoken == Subtokens(data)[hit]
                rewind == Token_delta(data, subtoken)
            IN InterpreterCont_entry(
                   [m1 EXCEPT !.last = [seen EXCEPT !.via = "subtoken", !.sub = subtoken,
                                                    !.rewind = rewind]],
                   m1.dictionary[subtoken], rewind)
       ELSE IF word \in DOMAIN m1.dictionary
       THEN InterpreterCont_entry([m1 EXCEPT !.last = [seen EXCEPT !.via = "predefined"]],
                                  m1.dictionary[word], 0)
       ELSE IF value.res = "err"
       THEN Fail([m1 EXCEPT !.last = [seen EXCEPT !.via = "invalid"]])
       ELSE IF value.res = "some"
       THEN LET st1 == Append(m1.stack, IntVal(value.num))
                st2 == IF value.has_denom
                       THEN push_argcount(Append(st1, IntVal(value.denom)), 2, NopId)
                       ELSE push_argcount(st1, 1, NopId)
            IN InterpreterCont_finish(
                   [m1 EXCEPT !.stack = st2, !.last = [seen EXCEPT !.via = "number"]])
       ELSE Fail([m1 EXCEPT !.last = [seen EXCEPT !.via = "undefined"]])

\* InterpreterCont::run from the token scanned to the end
InterpreterCont_token(m1, token) ==
    CHOOSE r \in
      { InterpreterCont_resolved(m1, token, hv[1], hv[2])
        : hv \in {<<FirstHit(m1, token.data), try_from_str(token.data)>>} } : TRUE

\* InterpreterCont::run
RECURSIVE InterpreterCont_run(_)
InterpreterCont_run(m) ==
    IF Len(m.blocks) = 0
    THEN [m EXCEPT !.cur = None, !.last = [NoLast EXCEPT !.via = "eof"]]
    ELSE \* the scan result sw is bound once
         CHOOSE r \in
           { IF sw.token.some
             THEN InterpreterCont_token([m EXCEPT !.blocks[Len(m.blocks)] = sw.b], sw.token)
             ELSE InterpreterCont_run([m EXCEPT !.blocks = Lexer_pop_source_block(m.blocks)])
             : sw \in {SourceBlockState_scan_word(m.blocks[Len(m.blocks)])} } : TRUE

(* -------------------------- CompileExecuteCont ------------------------- *)
\* mutant: the dispatch is inverted
CompileExecuteCont_run_inverted(m) ==
    IF m.state > 0 THEN execute_stack_top(m) ELSE compile_stack_top(m)

CompileExecuteCont_run(m) ==
    IF m.state > 0 THEN compile_stack_top(m) ELSE execute_stack_top(m)

(* -------------------------- native word adapters ----------------------- *)
\* the native functions behind the words of the scenarios
WordFn(op, arg, st) ==
    CASE op = "inc" -> [ok |-> Len(st) > 0 /\ Top(st).ty = "int",
                        stack |-> Append(Pop(st), IntVal(Top(st).val + 1))]
      [] op = "dup_lt" -> [ok |-> Len(st) > 0 /\ Top(st).ty = "int",
                           stack |-> Append(st, BoolVal(Top(st).val < arg))]
      [] op = "inc_ge" -> [ok |-> Len(st) > 0 /\ Top(st).ty = "int",
                           stack |-> Append(Append(Pop(st), IntVal(Top(st).val + 1)),
                                            BoolVal(Top(st).val + 1 >= arg))]
      [] op = "a" -> [ok |-> TRUE, stack |-> Append(st, IntVal(1))]
      [] op = "b" -> [ok |-> TRUE, stack |-> Append(st, IntVal(2))]
      [] op = "c" -> [ok |-> TRUE, stack |-> Append(st, IntVal(3))]
      [] op = "ab" -> [ok |-> TRUE, stack |-> push_argcount(st, 0, NopId)]
      [] OTHER -> [ok |-> TRUE, stack |-> st]

\* StackWordFunc::run: call the function, return none
StackWordFunc_run(m) ==
    LET this == m.heap[m.cur]
        r == WordFn(this.op, this.arg, m.stack)
    IN IF ~r.ok THEN Fail(m)
       ELSE [m EXCEPT !.stack = r.stack, !.trace = Append(@, this.op), !.cur = None]

\* ContextWordFunc::run: call the function on the context, return none; the
\* one such word of the scenarios pushes a source block (include)
ContextWordFunc_run(m) ==
    LET this == m.heap[m.cur]
    IN [m EXCEPT !.blocks = Lexer_push_source_block(m.blocks, this.arg),
                 !.trace = Append(@, this.op), !.cur = None]

(* ------------------------------ backtrace ------------------------------ *)
\* mutant: a SeqCont's parent is its first part
ContImpl_up_first(m, n) ==
    LET this == m.heap[n]
    IN CASE this.kind = "SeqCont" -> this.first
         [] this.kind \in {"ListCont", "TimesCont", "UntilCont", "WhileCont"} -> this.after
         [] OTHER -> None

\* ContImpl::up: second of a SeqCont, after of a list or loop, none otherwise
ContImpl_up(m, n) ==
    LET this == m.heap[n]
    IN CASE this.kind = "SeqCont" -> this.second
         [] this.kind \in {"ListCont", "TimesCont", "UntilCont", "WhileCont"} -> this.after
         [] OTHER -> None

\* the number of levels display_backtrace writes in full
BacktraceLevels == 16

\* the loop of display_backtrace from level i on; out is what was written
RECURSIVE backtrace_from(_, _, _, _)
backtrace_from(m, cont, i, out) ==
    IF i > BacktraceLevels
    THEN Append(out, [line |-> "... more levels ...", level |-> 0, cont |-> None])
    ELSE CHOOSE r \in
           { IF up # None
             THEN backtrace_from(m, up, i + 1, written)
             ELSE written
             : <<up, written>> \in
                 {ContImpl_up(m, cont)}
                 \X {Append(out, [line |-> "level", level |-> i, cont |-> cont])} } : TRUE

\* display_backtrace
display_backtrace(m, cont) == backtrace_from(m, cont, 1, << >>)

(* -------------------------------- dump --------------------------------- *)
\* const N in ListCont::fmt_dump
DumpWindow == 16

\* what fmt_dump writes, piece by piece; an item is written by its index
Piece(text) == [text |-> text, index |-> -1]
ItemPiece(i) == [text |-> "item", index |-> i]

RECURSIVE dump_items(_, _, _)
dump_items(i, end, pos) ==
    IF i >= end THEN << >>
    ELSE (IF i = pos THEN << Piece("**HERE** ") >> ELSE << >>)
         \o << ItemPiece(i) >> \o dump_items(i + 1, end, pos)

\* ListCont::fmt_dump; the name a dictionary may resolve for the list is left out
ListCont_fmt_dump(m, n) ==
    LET pos == m.heap[n].pos
        len == Len(m.lists[m.heap[n].list])
    IN IF pos = 0
       THEN << Piece("{") >> \o [i \in 1..len |-> ItemPiece(i - 1)] \o << Piece(" }") >>
       ELSE LET start == IF pos >= DumpWindow THEN pos - DumpWindow ELSE 0
                end == IF start + DumpWindow < len THEN start + DumpWindow ELSE len
            IN (IF start > 0 THEN << Piece("... ") >> ELSE << >>)
               \o dump_items(start, end, pos)
               \o (IF pos + DumpWindow < len THEN << Piece("...") >> ELSE << >>)

(* ----------------------------- trampoline ------------------------------ *)
\* cont.run(ctx), dispatched on the dynamic type of the current continuation
ContImpl_run(m) ==
    LET k == m.heap[m.cur].kind
    IN CASE k = "SeqCont" -> SeqCont_run(m)
         [] k = "ListCont" -> ListCont_run(m)
         [] k = "TimesCont" -> TimesCont_run(m)
         [] k = "UntilCont" -> UntilCont_run(m)
         [] k = "WhileCont" -> WhileCont_run(m)
         [] k = "InterpreterCont" -> InterpreterCont_run(m)
         [] k = "CompileExecuteCont" -> CompileExecuteCont_run(m)
         [] k = "ContextWordFunc" -> ContextWordFunc_run(m)
         [] OTHER -> StackWordFunc_run(m)

\* if current.is_none() { current = ctx.next.take() }
TakeNextM(m) == [m EXCEPT !.cur = m.next, !.next = None]

\* one turn of the driver loop
DriverStep(m) ==
    IF m.cur # None THEN ContImpl_run(m)
    ELSE IF m.next # None THEN TakeNextM(m)
    ELSE [m EXCEPT !.pc = "done"]

\* the driver loop run to its end
RECURSIVE Drive(_, _)
Drive(m, fuel) ==
    IF m.pc # "run" \/ fuel = 0 THEN m ELSE Drive(DriverStep(m), fuel - 1)

(* ------------------------------ scenarios ------------------------------ *)
\* the native words of the scenarios; nop and the compile-execute shim come
\* first (NopId, CompileExecId)
WordOps ==
    << "nop", "", "a", "b", "c", "x", "y", "A", "N", "dup_lt", "inc", "inc_ge",
       "ab", "e_acute", "include" >>

Leaf(op) == CHOOSE i \in 1..Len(WordOps) : WordOps[i] = op
Seed0 == Len(WordOps) + 1

Leaves(limit) ==
    [i \in 1..Len(WordOps) |->
        IF i = CompileExecId THEN CompileExecuteCont
        ELSE IF WordOps[i] = "include" THEN ContextWordFunc(WordOps[i], << >>)
        ELSE StackWordFunc(WordOps[i], IF WordOps[i] \in {"dup_lt", "inc_ge"} THEN limit ELSE 0)]

\* the words a dictionary of a scenario may define: name, native word, active
Vocabulary ==
    { [name |-> << "a" >>, op |-> "a", active |-> FALSE],
      [name |-> << "a", "b" >>, op |-> "ab", active |-> TRUE],
      [name |-> << "C3", "A9" >>, op |-> "e_acute", active |-> FALSE],
      [name |-> << "b", " " >>, op |-> "b", active |-> FALSE] }

DictionaryOf(words) ==
    [n \in {w.name : w \in words} |->
        LET w == CHOOSE v \in words : v.name = n
        IN [definition |-> Leaf(w.op), active |-> w.active]]

Empty(c) ==
    [heap |-> Leaves(c.limit), lists |-> << >>, cur |-> None, next |-> None,
     stack |-> << >>, trace |-> << >>, pc |-> "run", ext |-> {},
     blocks |-> << >>, dictionary |-> DictionaryOf({}), exit_interpret |-> None,
     state |-> 0, compiled |-> << >>, last |-> NoLast]

Opt(b, id) == IF b THEN id ELSE None

\* a chain of count levels linked by up(): composite nodes of rotating kinds,
\* the last level a native word when c.after is set
ChainKinds == << "SeqCont", "ListCont", "TimesCont", "UntilCont", "WhileCont" >>

ChainOf(c) ==
    [i \in 1..c.count |-> IF i = c.count /\ c.after THEN Leaf("A") ELSE Seed0 + i - 1]

ChainNode(kind, up) ==
    CASE kind = "SeqCont" -> SeqCont(Leaf("a"), up)
      [] kind = "ListCont" -> ListCont(1, up, 0)
      [] kind = "TimesCont" -> TimesCont(Leaf("b"), up, 1)
      [] kind = "UntilCont" -> UntilCont(Leaf("b"), up)
      [] OTHER -> WhileCont(Leaf("a"), Leaf("b"), up, FALSE)

ChainNodes(c) ==
    [i \in 1..(IF c.after THEN c.count - 1 ELSE c.count) |->
        ChainNode(ChainKinds[((i + c.pos) % Len(ChainKinds)) + 1],
                  IF i < c.count THEN ChainOf(c)[i + 1] ELSE None)]

\* the machine at the moment the driver is handed the scenario's continuation
Load(c) ==
    LET e == Empty(c)
        after == Opt(c.after, Leaf("A"))
        built ==
          CASE c.kind = "ListCont" ->
                 [RcNew(e, ListCont(1, after, c.pos)) EXCEPT
                     !.lists = << [i \in 1..Len(c.items) |-> Leaf(c.items[i])] >>,
                     !.cur = Seed0]
            [] c.kind = "SeqCont" ->
                 [RcNew(e, SeqCont(Opt(c.first, Leaf("a")), Opt(c.second, Leaf("b")))) EXCEPT
                     !.cur = Seed0]
            [] c.kind = "SeqRight" ->
                 LET r1 == SeqCont_make(e, Leaf("b"), Leaf("c"))
                     r2 == SeqCont_make(r1.m, Leaf("a"), r1.cont)
                 IN [r2.m EXCEPT !.cur = r2.cont]
            [] c.kind = "SeqLeft" ->
                 LET r1 == SeqCont_make(e, Leaf("a"), Leaf("b"))
                     r2 == SeqCont_make(r1.m, r1.cont, Leaf("c"))
                 IN [r2.m EXCEPT !.cur = r2.cont]
            [] c.kind = "TimesCont" ->
                 [RcNew(e, TimesCont(Leaf("b"), after, c.count)) EXCEPT !.cur = Seed0]
            [] c.kind = "UntilCont" ->
                 [RcNew(e, UntilCont(Leaf("inc_ge"), after)) EXCEPT
                     !.cur = Seed0,
                     !.stack = IF c.bare THEN << >>
                               ELSE << IntVal(1), BoolVal(1 >= c.limit) >>]
            [] c.kind = "WhileCont" ->
                 [RcNew(e, WhileCont(Leaf("dup_lt"), Leaf("inc"), after, c.rb)) EXCEPT
                     !.cur = Seed0,
                     !.stack = IF c.bare THEN << ContVal(NopId) >>
                               ELSE IF c.rb THEN << IntVal(0), BoolVal(0 < c.limit) >>
                               ELSE << IntVal(0) >>]
            [] c.kind = "Dump" ->
                 [RcNew(e, ListCont(1, None, c.pos)) EXCEPT
                     !.lists = << [i \in 1..c.count |-> Leaf("x")] >>,
                     !.cur = Seed0]
            [] c.kind = "Backtrace" ->
                 [e EXCEPT !.heap = @ \o ChainNodes(c),
                           !.lists = << << Leaf("x") >> >>,
                           !.cur = ChainOf(c)[1]]
            [] OTHER ->
                 [RcNew(e, InterpreterCont) EXCEPT
                     !.cur = Seed0,
                     !.state = c.state,
                     !.heap[Leaf("include")].arg = << c.inner \o << "\n" >> >>,
                     !.blocks = << SourceBlockState(<< c.line \o << "\n" >> >>) >>,
                     !.dictionary = DictionaryOf(c.dict)]
    IN [built EXCEPT !.next = Opt(c.tail, Leaf("N")),
                     !.ext = (IF c.shared THEN {built.cur} ELSE {})
                             \cup {NopId, CompileExecId}
                             \cup {built.dictionary[n].definition : n \in DOMAIN built.dictionary}]

NoCfg ==
    [kind |-> "", shared |-> FALSE, tail |-> FALSE, after |-> FALSE, items |-> << >>,
     pos |-> 0, count |-> 0, limit |-> 0, first |-> FALSE, second |-> FALSE,
     rb |-> FALSE, line |-> << >>, dict |-> {}, state |-> 0, inner |-> << >>,
     bare |-> FALSE]

ItemLists == UNION {[1..n -> {"x", "y"}] : n \in 1..MaxItems}

Shapes ==
    {[NoCfg EXCEPT !.kind = "ListCont", !.items = it, !.pos = p, !.after = a] :
        <<it, p, a>> \in {t \in ItemLists \X (0..MaxItems) \X BOOLEAN : t[2] <= Len(t[1])}}
    \cup {[NoCfg EXCEPT !.kind = "SeqCont", !.first = f, !.second = s] :
        <<f, s>> \in BOOLEAN \X BOOLEAN}
    \cup {[NoCfg EXCEPT !.kind = k] : k \in {"SeqRight", "SeqLeft"}}
    \cup {[NoCfg EXCEPT !.kind = "TimesCont", !.count = n, !.after = a] :
        <<n, a>> \in (0..MaxCount) \X BOOLEAN}
    \cup {[NoCfg EXCEPT !.kind = "UntilCont", !.limit = k, !.after = a] :
        <<k, a>> \in (1..MaxLimit) \X BOOLEAN}
    \cup {[NoCfg EXCEPT !.kind = "WhileCont", !.limit = k, !.after = a, !.rb = r] :
        <<k, a, r>> \in (0..MaxLimit) \X BOOLEAN \X BOOLEAN}
    \cup {[NoCfg EXCEPT !.kind = k, !.limit = 1, !.after = a, !.rb = TRUE, !.bare = TRUE] :
        <<k, a>> \in {"UntilCont", "WhileCont"} \X BOOLEAN}

Configs ==
    {[c EXCEPT !.shared = sh, !.tail = t] : <<c, sh, t>> \in Shapes \X BOOLEAN \X BOOLEAN}

\* source text: every line of at most MaxLine characters
Chars == { << "a" >>, << "b" >>, << "1" >>, << " " >>, << "C3", "A9" >> }

RECURSIVE Flatten(_)
Flatten(ss) == IF Len(ss) = 0 THEN << >> ELSE Head(ss) \o Flatten(Tail(ss))

Lines == {Flatten(cs) : cs \in UNION {[1..n -> Chars] : n \in 0..MaxLine}}

InterpConfigs ==
    {[NoCfg EXCEPT !.kind = "InterpreterCont", !.line = l, !.dict = d, !.tail = t] :
        <<l, d, t>> \in Lines \X (SUBSET Vocabulary) \X BOOLEAN}

\* source text of number literals, with words that are a prefix of a number,
\* a number followed by a space, an active word, and an active word that
\* leaves nothing for the compile-execute shim; in either state
NumberLines ==
    {Flatten(cs) : cs \in UNION {[1..n -> { << "1" >>, << "-" >>, << "/" >>, << " " >> }] :
                                 n \in 0..MaxLine}}

NumberWords ==
    { [name |-> << "1" >>, op |-> "x", active |-> FALSE],
      [name |-> << "1", " " >>, op |-> "y", active |-> FALSE],
      [name |-> << "/" >>, op |-> "ab", active |-> TRUE],
      [name |-> << "-" >>, op |-> "x", active |-> TRUE] }

NumberConfigs ==
    {[NoCfg EXCEPT !.kind = "InterpreterCont", !.line = l, !.dict = d, !.tail = t,
                   !.state = st] :
        <<l, d, t, st>> \in NumberLines \X (SUBSET NumberWords) \X BOOLEAN \X {0, 1}}

\* source text that includes a nested block: the word i pushes the block
\* whose text is inner
MaxInner == 2

BlockLines == {Flatten(cs) : cs \in UNION {[1..n -> { << "a" >>, << "i" >>, << " " >> }] : n \in 0..MaxLine}}
InnerLines == {Flatten(cs) : cs \in UNION {[1..n -> { << "b" >>, << " " >> }] : n \in 0..MaxInner}}

BlockWords ==
    { [name |-> << "a", " " >>, op |-> "a", active |-> FALSE],
      [name |-> << "b", " " >>, op |-> "b", active |-> FALSE],
      [name |-> << "i", " " >>, op |-> "include", active |-> FALSE] }

BlockConfigs ==
    {[NoCfg EXCEPT !.kind = "InterpreterCont", !.line = l, !.inner = i, !.tail = t,
                   !.dict = BlockWords] :
        <<l, i, t>> \in BlockLines \X InnerLines \X BOOLEAN}

(* ---------------------------- specification ---------------------------- *)
Install(result) ==
    \E m \in {result} :
    /\ heap' = m.heap
    /\ lists' = m.lists
    /\ cur' = m.cur
    /\ next' = m.next
    /\ stack' = m.stack
    /\ trace' = m.trace
    /\ pc' = m.pc
    /\ ext' = m.ext
    /\ blocks' = m.blocks
    /\ dictionary' = m.dictionary
    /\ exit_interpret' = m.exit_interpret
    /\ state' = m.state
    /\ compiled' = m.compiled
    /\ last' = m.last
    /\ cfg' = cfg

Loaded(loaded) ==
    \E m \in {loaded} :
    /\ heap = m.heap
    /\ lists = m.lists
    /\ cur = m.cur
    /\ next = m.next
    /\ stack = m.stack
    /\ trace = m.trace
    /\ pc = m.pc
    /\ ext = m.ext
    /\ blocks = m.blocks
    /\ dictionary = m.dictionary
    /\ exit_interpret = m.exit_interpret
    /\ state = m.state
    /\ compiled = m.compiled
    /\ last = m.last

Init == cfg \in Configs /\ Loaded(Load(cfg))

Running(k) == pc = "run" /\ cur # None /\ heap[cur].kind = k

RunSeqCont == Running("SeqCont") /\ Install(SeqCont_run(Machine))
RunListCont == Running("ListCont") /\ Install(ListCont_run(Machine))
RunTimesCont == Running("TimesCont") /\ Install(TimesCont_run(Machine))
RunUntilCont == Running("UntilCont") /\ Install(UntilCont_run(Machine))
RunWhileCont == Running("WhileCont") /\ Install(WhileCont_run(Machine))
RunStackWordFunc == Running("StackWordFunc") /\ Install(StackWordFunc_run(Machine))
RunInterpreterCont == Running("InterpreterCont") /\ Install(InterpreterCont_run(Machine))
RunCompileExecuteCont ==
    Running("CompileExecuteCont") /\ Install(CompileExecuteCont_run(Machine))
RunContextWordFunc == Running("ContextWordFunc") /\ Install(ContextWordFunc_run(Machine))
TakeNext == pc = "run" /\ cur = None /\ next # None /\ Install(TakeNextM(Machine))
Exit == pc = "run" /\ cur = None /\ next = None /\ Install(DriverStep(Machine))

\* the continuation engine on hand-built continuations
Next ==
    \/ RunSeqCont
    \/ RunListCont
    \/ RunTimesCont
    \/ RunUntilCont
    \/ RunWhileCont
    \/ RunStackWordFunc
    \/ TakeNext
    \/ Exit

Spec == Init /\ [][Next]_vars

\* the text interpreter on one source block
InitInterp ==
    /\ cfg \in InterpConfigs \cup NumberConfigs \cup BlockConfigs
    /\ Loaded(Load(cfg))

NextInterp ==
    \/ RunInterpreterCont
    \/ RunCompileExecuteCont
    \/ RunContextWordFunc
    \/ RunSeqCont
    \/ RunStackWordFunc
    \/ TakeNext
    \/ Exit

SpecInterp == InitInterp /\ [][NextInterp]_vars

\* the text interpreter on a source block that includes a nested block; the
\* driver loop keeps stepping while a continuation remains
InitBlocks == cfg \in BlockConfigs /\ Loaded(Load(cfg))

FairSpecBlocks == InitBlocks /\ [][NextInterp]_vars /\ WF_vars(NextInterp)

\* display_backtrace on a chain of continuations
MaxChain == 18

BacktraceConfigs ==
    {[NoCfg EXCEPT !.kind = "Backtrace", !.count = n, !.pos = p, !.after = a] :
        <<n, p, a>> \in (1..MaxChain) \X (0..(Len(ChainKinds) - 1)) \X BOOLEAN}

DisplayBacktrace ==
    /\ pc = "run" /\ cfg.kind = "Backtrace"
    /\ Install([Machine EXCEPT !.pc = "done",
                               !.last = [via |-> "display_backtrace",
                                         out |-> display_backtrace(Machine, cur)]])

SpecBacktrace ==
    /\ cfg \in BacktraceConfigs /\ Loaded(Load(cfg))
    /\ [][DisplayBacktrace]_vars

\* fmt_dump on a ListCont of count items at position pos
MaxDump == 34

DumpConfigs ==
    {[NoCfg EXCEPT !.kind = "Dump", !.count = n, !.pos = p] :
        <<n, p>> \in {t \in (1..MaxDump) \X (0..MaxDump) : t[2] <= t[1]}}

FmtDump ==
    /\ pc = "run" /\ cfg.kind = "Dump"
    /\ Install([Machine EXCEPT !.pc = "done",
                               !.last = [via |-> "fmt_dump",
                                         out |-> ListCont_fmt_dump(Machine, cur)]])

SpecDump ==
    /\ cfg \in DumpConfigs /\ Loaded(Load(cfg))
    /\ [][FmtDump]_vars

\* every kind of continuation under the driver loop
InitEngine ==
    /\ cfg \in Configs \cup InterpConfigs \cup NumberConfigs \cup BlockConfigs
    /\ Loaded(Load(cfg))

NextEngine ==
    \/ RunSeqCont
    \/ RunListCont
    \/ RunTimesCont
    \/ RunUntilCont
    \/ RunWhileCont
    \/ RunInterpreterCont
    \/ RunCompileExecuteCont
    \/ RunStackWordFunc
    \/ RunContextWordFunc
    \/ TakeNext
    \/ Exit

SpecEngine == InitEngine /\ [][NextEngine]_vars

(* ------------------------- expected behaviours ------------------------- *)
RECURSIVE Rep(_, _)
Rep(s, n) == IF n <= 0 THEN << >> ELSE s \o Rep(s, n - 1)

AfterTrace == IF cfg.after THEN << "A" >> ELSE << >>
TailTrace == IF cfg.tail THEN << "N" >> ELSE << >>
ItemsFromPos == SubSeq(cfg.items, cfg.pos + 1, Len(cfg.items))
IsPrefix(s, t) == Len(s) <= Len(t) /\ SubSeq(t, 1, Len(s)) = s
Flipped == Drive(Load([cfg EXCEPT !.shared = ~cfg.shared]), Fuel)
Done == pc = "done"

(* C1: a ListCont stepped at pos 0 over leaf items x1..xn executes exactly
   x1, x2, ..., xn in index order, each once and nothing in between, whether
   the node is shared or not and whether ctx.next is empty or not. *)
C1_ListPlayback ==
    cfg.kind = "ListCont" /\ cfg.pos = 0 =>
        /\ IsPrefix(trace, cfg.items) \/ IsPrefix(cfg.items, trace)
        /\ \A i \in 1..Len(trace) : i > Len(cfg.items) => trace[i] \notin {"x", "y"}
        /\ Done => IsPrefix(cfg.items, trace)

C1_Witness ==
    /\ Done /\ cfg.kind = "ListCont" /\ cfg.pos = 0 /\ cfg.shared /\ cfg.tail
    /\ cfg.items = << "x", "y" >>
    /\ IsPrefix(cfg.items, trace)

(* C2: a ListCont with after = A stepped at any pos < len while ctx.next holds
   a tail N runs the remaining items, then A, then N, each exactly once. *)
C2_TailSurvives ==
    Done /\ cfg.kind = "ListCont" /\ cfg.pos < Len(cfg.items) /\ cfg.tail =>
        trace = ItemsFromPos \o AfterTrace \o << "N" >>

(* C3: stepping a node through its uniquely owned branch and an equal node
   through its shared branch gives the same executed words and final stack. *)
C3_UniqueSharedEquivalent ==
    Done => Flipped.pc = "done" /\ Flipped.trace = trace /\ Flipped.stack = stack

(* C4: running a continuation that has another owner changes no field of it
   and no word-list, so the owner can play it again from the same point. *)
C4_SharedStepFrame ==
    \A n \in 1..Len(heap) :
        StrongCount(Machine, n) >= 2 \/ n \in ext =>
            /\ heap'[n] = heap[n]
            /\ lists' = lists

\* C4: no step changes a field of a continuation that has another owner, nor
\* any word-list.
C4_SharedUnchanged == [][C4_SharedStepFrame]_vars

C4_Witness ==
    /\ Done /\ cfg.shared /\ cfg.kind = "ListCont" /\ cfg.pos = 0 /\ Len(trace) >= 2
    /\ heap[Seed0] = Load(cfg).heap[Seed0]

(* C5: SeqCont(a, SeqCont(b, c)) and SeqCont(SeqCont(a, b), c) execute a, b, c
   and then the previous tail, with the same final stack. *)
C5_SeqAssociative ==
    Done /\ cfg.kind \in {"SeqRight", "SeqLeft"} =>
        LET other == Drive(Load([cfg EXCEPT !.kind = IF cfg.kind = "SeqRight"
                                                     THEN "SeqLeft" ELSE "SeqRight"]), Fuel)
        IN /\ trace = << "a", "b", "c" >> \o TailTrace
           /\ other.pc = "done" /\ other.trace = trace /\ other.stack = stack

C5_Witness ==
    Done /\ cfg.kind = "SeqLeft" /\ cfg.tail /\ trace = << "a", "b", "c", "N" >>
    /\ stack = << IntVal(1), IntVal(2), IntVal(3) >>

(* C6: a step of SeqCont{first, second} yields first and leaves ctx.next =
   second when ctx.next was empty, else 'second then the old ctx.next'; the
   driver runs first, second, old tail in that order, also when first or
   second is absent. *)
C6_SeqStepAction ==
    Running("SeqCont") =>
        /\ cur' = heap[cur].first
        /\ next = None => next' = heap[cur].second
        /\ next # None =>
              /\ next' # None /\ heap'[next'].kind = "SeqCont"
              /\ heap'[next'].first = heap[cur].second
              /\ heap'[next'].second = next

C6_SeqOrder ==
    Done /\ cfg.kind = "SeqCont" =>
        trace = (IF cfg.first THEN << "a" >> ELSE << >>)
                \o (IF cfg.second THEN << "b" >> ELSE << >>) \o TailTrace

\* C6: every SeqCont step yields first and queues second before the old
\* ctx.next, and the run executes first, second, old tail in that order.
C6_SeqStep == [][C6_SeqStepAction]_vars /\ []C6_SeqOrder

C6_Witness ==
    Done /\ cfg.kind = "SeqCont" /\ cfg.first /\ cfg.second /\ cfg.tail /\ cfg.shared
    /\ trace = << "a", "b", "N" >>

(* C7: TimesCont{body, after, count}, count >= 1, runs body exactly count
   times, then after, then the tail, each once; count drops by one per
   iteration and the node is re-enqueued only while count > 1. *)
C7_TimesStepAction ==
    Running("TimesCont") =>
        IF heap[cur].count > 1
        THEN /\ next' # None /\ heap'[next'].kind = "TimesCont"
             /\ heap'[next'].count = heap[cur].count - 1
             /\ cur' = heap[cur].body
        ELSE /\ next' # None => heap'[next'].kind # "TimesCont"
             /\ cur' = heap[cur].body

C7_TimesTotal ==
    Done /\ cfg.kind = "TimesCont" /\ cfg.count >= 1 =>
        trace = Rep(<< "b" >>, cfg.count) \o AfterTrace \o TailTrace

\* C7: every TimesCont step re-enqueues the node with count - 1 only while
\* count > 1, and the run executes body count times, then after, then the tail.
C7_TimesExact == [][C7_TimesStepAction]_vars /\ []C7_TimesTotal

C7_Witness ==
    Done /\ cfg.kind = "TimesCont" /\ cfg.count = 3 /\ cfg.after /\ cfg.tail
    /\ trace = << "b", "b", "b", "A", "N" >>

(* C8: a WhileCont started in the condition phase runs condition, pops a
   boolean, on true runs body and the condition again, on false leaves; for a
   condition true k times then false: body k times, condition k+1 times,
   alternating, then after, then the tail (scenario D leaves 5). *)
C8_WhileAlternates ==
    Done /\ cfg.kind = "WhileCont" /\ ~cfg.rb =>
        /\ trace = Rep(<< "dup_lt", "inc" >>, cfg.limit) \o << "dup_lt" >>
                   \o AfterTrace \o TailTrace
        /\ stack = << IntVal(cfg.limit) >>

C8_Witness ==
    Done /\ cfg.kind = "WhileCont" /\ ~cfg.rb /\ cfg.limit = 5 /\ cfg.tail /\ cfg.after
    /\ stack = << IntVal(5) >>
    /\ Len(trace) = 13

(* C9: each UntilCont step pops one boolean; true ends the loop with after and
   body is not run again, false re-enqueues the loop and yields body; a body
   leaving false k times and then true runs k more times after the first
   test, then after and the tail run once each. *)
C9_UntilStepAction ==
    Running("UntilCont") /\ pc' # "error" =>
        /\ stack' = Pop(stack)
        /\ IF Top(stack).val # 0
           THEN cur' = heap[cur].after /\ next' = next
           ELSE /\ cur' = heap[cur].body
                /\ next' # None /\ heap'[next'].kind = "UntilCont"
                /\ heap'[next'].body = heap[cur].body

C9_UntilTotal ==
    Done /\ cfg.kind = "UntilCont" =>
        /\ trace = Rep(<< "inc_ge" >>, cfg.limit - 1) \o AfterTrace \o TailTrace
        /\ stack = << IntVal(cfg.limit) >>

\* C9: every UntilCont step pops one boolean and leaves on true, and the run
\* executes body k more times, then after, then the tail.
C9_UntilPostTest == [][C9_UntilStepAction]_vars /\ []C9_UntilTotal

C9_Witness ==
    Done /\ cfg.kind = "UntilCont" /\ cfg.limit = 3 /\ cfg.tail /\ cfg.after
    /\ trace = << "inc_ge", "inc_ge", "A", "N" >>

(* C10: the interpreter tries the prefixes of the scanned token T from the
   longest (T itself) to the shortest (one character), never the empty
   string, uses the first one Ti found in the dictionary and rewinds the lexer
   by exactly |T| - |Ti| bytes, so that the next scan_word starts at the first
   character of T after Ti. *)
CharPrefixes(str) == {SubSeq(str, 1, k) : k \in {j \in 1..Len(str) : IsCharBoundary(str, j)}}

C10_SubtokenChoice ==
    Running("InterpreterCont") =>
        LET T == last'.data
            Ti == last'.sub
            known == CharPrefixes(T) \cap DOMAIN dictionary
        IN /\ last'.via = "subtoken" <=> known # {}
           /\ last'.via = "subtoken" =>
                 /\ Ti \in known /\ Len(Ti) >= 1
                 /\ \A p \in known : Len(p) <= Len(Ti)
                 /\ last'.rewind = Len(T) - Len(Ti)
                 /\ blocks'[Len(blocks')].line_offset = last'.start + Len(Ti)

C10_NextScan ==
    Running("InterpreterCont") /\ last.via = "subtoken" /\ last.rewind > 0 =>
        /\ last'.start = last.start + Len(last.sub)
        /\ last'.data = SubSeq(last.data, Len(last.sub) + 1, Len(last.data))

\* C10: every interpreter step picks the longest dictionary prefix of the
\* token and rewinds by |T| - |Ti| bytes; the next scan starts right after Ti.
C10_SubtokenRewind == [][C10_SubtokenChoice /\ C10_NextScan]_vars

C10_Witness ==
    /\ last.via = "undefined" /\ last.data = << "C3", "A9", "b" >> /\ last.start = 1
    /\ trace = << "a" >>
    /\ cfg.line = << "a", "C3", "A9", "b" >>

(* ---------------------- the number parser on tokens -------------------- *)
MaxToken == 4

\* the bytes of the tokens handed to try_from_str
NumberBytes == {"-", "/", "0", "1", "x", "b", "Z"}
NumberTokens == UNION {[1..n -> NumberBytes] : n \in 1..MaxToken}

InitNumber ==
    /\ cfg \in {[NoCfg EXCEPT !.kind = "try_from_str", !.line = t] : t \in NumberTokens}
    /\ Loaded(Empty(cfg))

\* a call of ImmediateInt::try_from_str on the token
TryFromStr ==
    /\ pc = "run" /\ cfg.kind = "try_from_str"
    /\ Install([Machine EXCEPT !.pc = "done",
                               !.last = [via |-> "try_from_str", data |-> cfg.line,
                                         value |-> try_from_str(cfg.line)]])

NextNumber ==
    \/ TryFromStr

SpecNumber == InitNumber /\ [][NextNumber]_vars

\* the grammar of number literals: optional '-', then 0x and hex digits, 0b
\* and binary digits, or decimal digits; N/D of two such numbers
HexDigits == {"0", "1", "2", "3", "4", "5", "6", "7", "8", "9",
              "a", "b", "c", "d", "e", "f", "A", "B", "C", "D", "E", "F"}
BinDigits == {"0", "1"}
DecDigits == {"0", "1", "2", "3", "4", "5", "6", "7", "8", "9"}

Unsigned(str) == IF StartsWith(str, << "-" >>) THEN Tail(str) ELSE str
AllOf(str, digits) == Len(str) > 0 /\ \A i \in 1..Len(str) : str[i] \in digits

GrammarSingle(str) ==
    LET s1 == Unsigned(str)
    IN IF StartsWith(s1, << "0", "x" >>) THEN AllOf(Strip(s1, << "0", "x" >>), HexDigits)
       ELSE IF StartsWith(s1, << "0", "b" >>) THEN AllOf(Strip(s1, << "0", "b" >>), BinDigits)
       ELSE AllOf(s1, DecDigits)

GrammarValue(str) ==
    LET s1 == Unsigned(str)
        v == IF StartsWith(s1, << "0", "x" >>) THEN DigitsValue(Strip(s1, << "0", "x" >>), 16, 0)
             ELSE IF StartsWith(s1, << "0", "b" >>) THEN DigitsValue(Strip(s1, << "0", "b" >>), 2, 0)
             ELSE DigitsValue(s1, 10, 0)
    IN IF StartsWith(str, << "-" >>) THEN -v ELSE v

HasSlash(str) == \E i \in 1..Len(str) : str[i] = "/"
FirstSlash(str) == SetMin({i \in 1..Len(str) : str[i] = "/"})
Numerator(str) == SubSeq(str, 1, FirstSlash(str) - 1)
Denominator(str) == SubSeq(str, FirstSlash(str) + 1, Len(str))

GrammarNumber(str) ==
    IF HasSlash(str)
    THEN GrammarSingle(Numerator(str)) /\ GrammarSingle(Denominator(str))
    ELSE GrammarSingle(str)

\* N/D whose numerator is a number and whose denominator is not
MalformedRational(str) ==
    HasSlash(str) /\ GrammarSingle(Numerator(str)) /\ ~GrammarSingle(Denominator(str))

Parsed == last.via = "try_from_str"

(* C12: try_from_str returns a number exactly for the tokens the grammar
   accepts, and none (not an error) for every token that is not a number, such
   as '-', '/', '0x', '0xZ'. *)
C12_NumberGrammar ==
    Parsed =>
        /\ last.value.res = "some" <=> GrammarNumber(last.data)
        /\ ~GrammarNumber(last.data) /\ ~MalformedRational(last.data)
              => last.value.res = "none"

(* C13: for N/D split at the first '/': N a number and D not gives
   InvalidNumber; N not a number gives none whatever D is; both numbers give
   {num = N, denom = D} with the sign of D kept on D. *)
C13_MalformedRational ==
    Parsed /\ HasSlash(last.data) =>
        LET N == Numerator(last.data)
            D == Denominator(last.data)
        IN /\ GrammarSingle(N) /\ ~GrammarSingle(D) => last.value.res = "err"
           /\ ~GrammarSingle(N) => last.value.res = "none"
           /\ GrammarSingle(N) /\ GrammarSingle(D) =>
                 /\ last.value.res = "some" /\ last.value.has_denom
                 /\ last.value.num = GrammarValue(N)
                 /\ last.value.denom = GrammarValue(D)

(* ------------------------ the interpreter's steps ---------------------- *)
\* the token an InterpreterCont step scanned, if it scanned one
Scanned == Running("InterpreterCont") /\ last'.via # "eof"
TopOffset == blocks'[Len(blocks')].line_offset
PrefixKnown(T) == CharPrefixes(T) \cap DOMAIN dictionary # {}
SpacedKnown(T) == (T \o << " " >>) \in DOMAIN dictionary

C11_ResolutionStep ==
    Scanned =>
        LET T == last'.data
        IN /\ last'.via = "subtoken" <=> PrefixKnown(T)
           /\ last'.via = "predefined" <=> ~PrefixKnown(T) /\ SpacedKnown(T)
           /\ last'.via = "number" <=>
                 ~PrefixKnown(T) /\ ~SpacedKnown(T) /\ GrammarNumber(T)
           /\ last'.via = "undefined" <=>
                 /\ ~PrefixKnown(T) /\ ~SpacedKnown(T)
                 /\ ~GrammarNumber(T) /\ ~MalformedRational(T)
           /\ last'.via = "predefined" => TopOffset = last'.start + Len(T)

(* C11: a token is resolved as (1) its longest prefix found in the
   dictionary, else (2) the token followed by one space, else (3) a number
   literal, else (4) the failure 'Undefined word'; a later strategy is used
   only when every earlier one missed, and the space-suffixed match does not
   rewind. *)
C11_ResolutionOrder == [][C11_ResolutionStep]_vars

\* ctx.next after the step is 'interpreter then the previous tail', as
\* SeqCont::make builds it
Requeued(slot) ==
    IF next = None THEN slot = cur
    ELSE /\ slot # None /\ heap'[slot].kind = "SeqCont"
         /\ heap'[slot].first = cur /\ heap'[slot].second = next

C14_NumberStepAction ==
    Running("InterpreterCont") /\ last'.via = "number" =>
        LET T == last'.data
            pushed == IF HasSlash(T)
                      THEN << IntVal(GrammarValue(Numerator(T))),
                              IntVal(GrammarValue(Denominator(T))), IntVal(2) >>
                      ELSE << IntVal(GrammarValue(T)), IntVal(1) >>
        IN /\ stack' = stack \o pushed \o << ContVal(NopId) >>
           /\ TopOffset = last'.start + Len(T)
           /\ cur' = CompileExecId
           /\ Requeued(next')

(* C14: when a token resolves as a number the interpreter pushes the
   numerator, the denominator if there is one, and a nop entry with argcount 1
   or 2, does not rewind, and yields the compile-execute shim with ctx.next =
   'interpreter then the previous tail'. *)
C14_NumberStep == [][C14_NumberStepAction]_vars

C14_Witness ==
    /\ last.via = "number" /\ last.data = << "1", "/", "1" >>
    /\ stack = << IntVal(1), IntVal(1), IntVal(2), ContVal(NopId) >>
    /\ cur = CompileExecId
    /\ next # None /\ heap[next].kind = "SeqCont" /\ heap[next].second = Leaf("N")

\* the dictionary entry an InterpreterCont step located
Located == Running("InterpreterCont") /\ last'.via \in {"subtoken", "predefined"}
LocatedEntry ==
    dictionary[IF last'.via = "subtoken" THEN last'.sub ELSE last'.data \o << " " >>]

C15_EntryStepAction ==
    Located =>
        IF LocatedEntry.active
        THEN /\ stack' = stack
             /\ cur' = LocatedEntry.definition
             /\ next' # None /\ heap'[next'].kind = "SeqCont"
             /\ heap'[next'].first = CompileExecId
             /\ Requeued(heap'[next'].second)
        ELSE /\ stack' = stack \o << IntVal(0), ContVal(LocatedEntry.definition) >>
             /\ cur' = CompileExecId
             /\ Requeued(next')

\* the previous tail runs only after the interpreter was re-entered and
\* found the input exhausted
C15_TailLast == \A i \in 1..Len(trace) : trace[i] = "N" => last.via = "eof" /\ i = Len(trace)

(* C15: for an active entry the interpreter pushes nothing, yields the
   definition and queues the compile-execute shim, then the interpreter, then
   the previous tail; for a non-active entry it pushes the definition with
   argcount 0 and yields the shim with ctx.next = interpreter then the
   previous tail; the previous tail runs only after the interpreter has been
   re-entered. *)
C15_ActiveEntries == [][C15_EntryStepAction]_vars /\ []C15_TailLast

C15_Witness ==
    /\ Done /\ cfg.line = << "a", "b" >> /\ cfg.tail
    /\ trace = << "ab", "nop", "N" >>

C16_ExitStepAction ==
    Running("InterpreterCont") /\ cur' # None =>
        exit_interpret' = IF next # None THEN next ELSE NopId

(* C16: after every InterpreterCont step that yields a continuation (number,
   non-active word or active word) exit_interpret holds the continuation that
   was ctx.next when the step began, or a nop when ctx.next was empty. *)
C16_ExitCurrent == [][C16_ExitStepAction]_vars

\* the stack holds an entry, its argument count and that many arguments
ShimEntryOk ==
    /\ Len(stack) >= 2 /\ stack[Len(stack)].ty = "cont" /\ stack[Len(stack) - 1].ty = "int"
    /\ stack[Len(stack) - 1].val >= 0 /\ Len(stack) - 2 >= stack[Len(stack) - 1].val

C17_ShimStepAction ==
    Running("CompileExecuteCont") =>
        IF ~ShimEntryOk THEN pc' = "error" /\ trace' = trace /\ compiled' = compiled
        ELSE IF state > 0
        THEN /\ cur' = None /\ next' = next /\ trace' = trace /\ pc' = "run"
             /\ Len(compiled') > Len(compiled)
             /\ compiled'[Len(compiled')] = stack[Len(stack)]
        ELSE /\ cur' = stack[Len(stack)].val /\ compiled' = compiled /\ pc' = "run"
             /\ next' = next

(* C17: the compile-execute shim dispatches on compile depth > 0 only: when
   compiling it compiles the stack top, returns none and leaves ctx.next
   alone, so the definition is appended and not executed; when interpreting
   it returns the continuation of execute_stack_top and compiles nothing; an
   error of either call is returned. *)
C17_ShimDispatch == [][C17_ShimStepAction]_vars

C17_Witness ==
    /\ Done /\ state > 0 /\ cfg.line = << "1", " ", "1" >> /\ cfg.dict = {} /\ cfg.tail
    /\ compiled = << IntVal(1), ContVal(NopId), IntVal(1), ContVal(NopId) >>
    /\ trace = << "N" >>

(* ------------------------------ end of input --------------------------- *)
IsSpace(byte) == byte \in {" ", "\n"}

\* the maximal runs of non-whitespace bytes of a text, in order
RECURSIVE Runs(_)
Runs(text) ==
    IF Len(text) = 0 THEN << >>
    ELSE IF IsSpace(text[1]) THEN Runs(Tail(text))
    ELSE LET n == SetMin({i \in 1..Len(text) : i = Len(text) \/ IsSpace(text[i + 1])})
         IN << SubSeq(text, 1, n) >> \o Runs(SubSeq(text, n + 1, Len(text)))

\* the text a block has not yet given out: the rest of its line, then the
\* lines not yet read
Remaining(b) == SubSeq(b.line, b.line_offset + 1, Len(b.line)) \o Flatten(b.buffer)

C18_ScanStepAction ==
    Running("InterpreterCont") =>
        LET live == {i \in 1..Len(blocks) : Len(Runs(Remaining(blocks[i]))) > 0}
        IN IF live = {}
           THEN cur' = None /\ pc' = "run" /\ blocks' = << >> /\ last'.via = "eof"
           ELSE /\ ~(cur' = None /\ pc' = "run")
                /\ last'.data = Runs(Remaining(blocks[SetMax(live)]))[1]
                /\ Len(blocks') = SetMax(live)
                /\ \A i \in 1..(SetMax(live) - 1) : blocks'[i] = blocks[i]

\* the words run for the tokens of a text in which a is a word and i includes
\* the nested block
RECURSIVE Played(_, _)
Played(tokens, inner) ==
    IF Len(tokens) = 0 THEN << >>
    ELSE (IF Head(tokens) = << "i" >>
          THEN << "include" >> \o [j \in 1..Len(inner) |-> "b"]
          ELSE << "a" >>) \o Played(Tail(tokens), inner)

AllKnown ==
    /\ \A j \in 1..Len(Runs(cfg.line)) : Runs(cfg.line)[j] \in {<< "a" >>, << "i" >>}
    /\ (\E j \in 1..Len(Runs(cfg.line)) : Runs(cfg.line)[j] = << "i" >>)
          => \A j \in 1..Len(Runs(cfg.inner)) : Runs(cfg.inner)[j] = << "b" >>

Nested == cfg.kind = "InterpreterCont" /\ cfg.dict = BlockWords

C18_AllProcessed ==
    /\ Done => Len(blocks) = 0
    /\ Nested /\ Done =>
          AllKnown /\ trace = Played(Runs(cfg.line), Runs(cfg.inner)) \o TailTrace
    /\ Nested /\ pc = "error" => ~AllKnown

(* C18: the interpreter returns none only when scan_word finds no token and
   no source block is left; an exhausted top block is popped and scanning
   resumes in the block below where it was left, so the tokens of a nested
   block are processed before the rest of the enclosing block; the run
   eventually ends, with the block stack empty and every token processed once
   in source order. *)
C18_EndOfInput ==
    [][C18_ScanStepAction]_vars /\ []C18_AllProcessed /\ <>(pc # "run")

C18_Witness ==
    /\ Done /\ Nested /\ cfg.line = << "i", " ", "a" >> /\ cfg.inner = << "b" >> /\ cfg.tail
    /\ trace = << "include", "b", "a", "N" >>
    /\ Len(blocks) = 0

(* ------------------------- the lexer on one block ---------------------- *)
MaxText == 4
MaxReads == 6

LexChars == { << "a" >>, << "|" >>, << " " >>, << "\n" >>, << "C3", "A9" >> }
LexTexts == {Flatten(cs) : cs \in UNION {[1..n -> LexChars] : n \in 0..MaxText}}
Delimiters == {"|", NullChar}

\* the lines BufRead::read_line gives out: each up to and with its line break
RECURSIVE SplitLines(_)
SplitLines(text) ==
    IF Len(text) = 0 THEN << >>
    ELSE LET n == SetMin({i \in 1..Len(text) : i = Len(text) \/ text[i] = "\n"})
         IN << SubSeq(text, 1, n) >> \o SplitLines(SubSeq(text, n + 1, Len(text)))

\* count is the number of source blocks pushed: none, or one holding the text
LexerConfigs ==
    {[NoCfg EXCEPT !.kind = "Lexer", !.line = t, !.count = 1] : t \in LexTexts}
    \cup {[NoCfg EXCEPT !.kind = "Lexer"]}

NoCall ==
    [via |-> "none", res |-> "none", data |-> << >>, start |-> 0, delimiter |-> "",
     words_only |-> TRUE]

InitLexer ==
    /\ cfg \in LexerConfigs
    /\ Loaded([Empty(cfg) EXCEPT
                  !.blocks = IF cfg.count = 1
                             THEN Lexer_push_source_block(<< >>, SplitLines(cfg.line))
                             ELSE << >>,
                  !.last = NoCall])

\* read_line counts the lines without end; the calls stop after MaxReads
ReadsLeft == \A i \in 1..Len(blocks) : blocks[i].line_number < MaxReads

\* a call of Lexer::scan_word; trace collects the tokens it returned
ScanWord ==
    /\ pc = "run" /\ cfg.kind = "Lexer" /\ ReadsLeft
    /\ \E r \in {Lexer_scan_word(blocks)} :
          Install([Machine EXCEPT
                      !.blocks = r.blocks,
                      !.trace = IF r.token.some THEN Append(@, r.token.data) ELSE @,
                      !.last = [via |-> "scan_word",
                                res |-> IF r.token.some THEN "some" ELSE "none",
                                data |-> r.token.data, start |-> r.token.start,
                                delimiter |-> "", words_only |-> last.words_only]])

\* a call of Lexer::scan_until_delimiter
ScanUntilDelimiter ==
    /\ pc = "run" /\ cfg.kind = "Lexer" /\ ReadsLeft
    /\ \E d \in Delimiters :
       \E r \in {Lexer_scan_until_delimiter(blocks, d)} :
          Install([Machine EXCEPT
                      !.blocks = r.blocks,
                      !.last = [via |-> "scan_until_delimiter", res |-> r.res,
                                data |-> r.token.data, start |-> r.token.start,
                                delimiter |-> d, words_only |-> FALSE]])

NextLexer ==
    \/ ScanWord
    \/ ScanUntilDelimiter

SpecLexer == InitLexer /\ [][NextLexer]_vars

LeadingSpaces(text) ==
    IF \A i \in 1..Len(text) : IsSpace(text[i]) THEN Len(text)
    ELSE SetMin({i \in 1..Len(text) : ~IsSpace(text[i])}) - 1

C19_ScanWordStep ==
    last'.via = "scan_word" /\ Len(blocks) > 0 =>
        LET rem == Remaining(blocks[Len(blocks)])
            runs == Runs(rem)
            b2 == blocks'[Len(blocks')]
        IN IF Len(runs) = 0
           THEN last'.res = "none" /\ Len(Remaining(b2)) = 0
           ELSE /\ last'.res = "some"
                /\ last'.data = runs[1]
                /\ Remaining(b2) = SubSeq(rem, LeadingSpaces(rem) + Len(runs[1]) + 1, Len(rem))
                /\ b2.line_offset = last'.start + Len(last'.data)
                /\ SubSeq(b2.line, last'.start + 1, b2.line_offset) = last'.data

C19_Tokens ==
    /\ \A i \in 1..Len(trace) :
          /\ Len(trace[i]) > 0
          /\ \A j \in 1..Len(trace[i]) : ~IsSpace(trace[i][j])
    /\ last.words_only /\ Len(blocks) > 0 =>
          trace \o Runs(Remaining(blocks[Len(blocks)])) = Runs(cfg.line)
    /\ last.words_only /\ last.via = "scan_word" /\ last.res = "none" =>
          trace = Runs(cfg.line)

(* C19: successive scan_word calls return, in order, exactly the maximal runs
   of non-whitespace characters of the input: never an empty token, never one
   with whitespace in it or spanning two lines; further lines are read as
   needed; none is returned once the input is exhausted; after a call the
   offset is just past the returned token. *)
C19_ScanWord ==
    [][C19_ScanWordStep]_vars /\ []C19_Tokens

C19_Witness ==
    /\ cfg.kind = "Lexer" /\ cfg.line = << "a", "\n", " ", "C3", "A9" >>
    /\ last.words_only /\ last.via = "scan_word" /\ last.res = "none"
    /\ trace = << << "a" >>, << "C3", "A9" >> >>

C20_DelimiterStep ==
    last'.via = "scan_until_delimiter" =>
        IF Len(blocks) = 0
        THEN last'.res = "UnexpectedEof"
        ELSE LET rem == Remaining(blocks[Len(blocks)])
                 hits == {i \in 1..Len(rem) : rem[i] = last'.delimiter}
             IN IF hits # {}
                THEN /\ last'.res = "ok"
                     /\ last'.data = SubSeq(rem, 1, SetMin(hits) - 1)
                     /\ Remaining(blocks'[Len(blocks')]) = SubSeq(rem, SetMin(hits) + 1, Len(rem))
                ELSE IF last'.delimiter = NullChar
                THEN last'.res = "ok" /\ Len(last'.data) = 0
                ELSE last'.res = "UnexpectedEof"

(* C20: scan_until_delimiter(d) returns the text from the current offset up to
   the first occurrence of d in the remaining input, without d, and leaves the
   offset just past d; it fails with UnexpectedEof when the input ends before
   d, except that for the null character it returns an empty token; with no
   source block it fails with UnexpectedEof, the null character included. *)
C20_ScanUntilDelimiter ==
    [][C20_DelimiterStep]_vars

(* ------------------------------- errors -------------------------------- *)
\* a step that fails yields no continuation and leaves the tail, the nodes and
\* the exit-interpret cell as they were
Untouched ==
    /\ cur' = None
    /\ next' = next
    /\ heap' = heap
    /\ lists' = lists
    /\ exit_interpret' = exit_interpret

C21_FailedStep ==
    /\ (Running("UntilCont") \/ Running("WhileCont")) /\ pc' = "error" => Untouched
    /\ Running("InterpreterCont") /\ pc' = "error" =>
          /\ last'.via \in {"undefined", "invalid"}
          /\ Untouched
          /\ stack' = stack

\* the run ends at the first error: nothing is stepped afterwards
C21_NotRecovered == pc = "error" => cur = None /\ pc' = "error"

(* C21: a failing step (undefined word or invalid number in InterpreterCont,
   failed pop_bool in UntilCont or WhileCont) returns the error, yields no
   continuation and changes neither ctx.next nor the nodes nor exit_interpret;
   the interpreter's errors also leave the operand stack unchanged; the error
   is not recovered. *)
C21_ErrorsIntact ==
    [][C21_FailedStep /\ C21_NotRecovered]_vars

C21_Witness ==
    /\ pc = "error" /\ cfg.kind = "UntilCont" /\ cfg.bare /\ cfg.shared /\ cfg.tail /\ cfg.after
    /\ next = Leaf("N")

(* ------------------------------ backtrace ------------------------------ *)
Written == last.out
Frames == SelectSeq(Written, LAMBDA w : w.line = "level")
Markers == SelectSeq(Written, LAMBDA w : w.line = "... more levels ...")

(* C22: display_backtrace writes at most 16 'level i' frames, numbered from 1
   and following up() from the starting continuation; it writes the more-levels
   marker, last, exactly when the chain has more than 16 levels, and stops
   without it at the first continuation whose up() is none. *)
C22_BacktraceBound ==
    Done /\ cfg.kind = "Backtrace" =>
        /\ Len(Frames) = (IF cfg.count > 16 THEN 16 ELSE cfg.count)
        /\ \A i \in 1..Len(Frames) :
              /\ Written[i] = Frames[i]
              /\ Frames[i].level = i
              /\ Frames[i].cont = ChainOf(cfg)[i]
        /\ Len(Markers) = (IF cfg.count > 16 THEN 1 ELSE 0)
        /\ Len(Written) = Len(Frames) + Len(Markers)

C22_Witness ==
    /\ Done /\ cfg.kind = "Backtrace" /\ cfg.count = 17 /\ ~cfg.after
    /\ Len(Written) = 17 /\ Written[17].line = "... more levels ..."

(* ------------------------------- the graph ----------------------------- *)
\* the continuations a node holds in its first/second/after/body/condition
FieldEdges(n) == {heap[n][f] : f \in ContFields} \ {None}

RECURSIVE ReachedFrom(_)
ReachedFrom(S) ==
    LET T == S \cup UNION {FieldEdges(n) : n \in S}
    IN IF T = S THEN S ELSE ReachedFrom(T)

\* the number of up() hops from a continuation to none, at most fuel
RECURSIVE UpHops(_, _)
UpHops(n, fuel) ==
    IF n = None \/ fuel = 0 THEN 0
    ELSE 1 + UpHops(ContImpl_up(Machine, n), fuel - 1)

(* C23: after any sequence of steps no continuation is reachable from itself
   through first/second/after/body/condition, ctx.next included, and
   following up() from any continuation reaches none within as many hops as
   there are continuations. *)
C23_Acyclic ==
    /\ \A n \in 1..Len(heap) : n \notin ReachedFrom(FieldEdges(n))
    /\ \A n \in 1..Len(heap) : UpHops(n, Len(heap) + 1) <= Len(heap)
    /\ next # None => next \notin ReachedFrom(FieldEdges(next))

C23_Witness ==
    /\ cfg.kind = "TimesCont" /\ ~cfg.shared /\ cfg.tail /\ cfg.after /\ cfg.count >= 2
    /\ pc = "run" /\ next = Seed0 /\ Len(heap) > Seed0
    /\ heap[Seed0].after > Seed0
    /\ heap[heap[Seed0].after].second = Leaf("N")
    /\ Cardinality(ReachedFrom(FieldEdges(Seed0))) >= 3

(* -------------------------------- dump --------------------------------- *)
Shown == {last.out[k].index : k \in {j \in 1..Len(last.out) : last.out[j].text = "item"}}
Heres == {k \in 1..Len(last.out) : last.out[k].text = "**HERE** "}

(* C24: for a ListCont with 0 < pos < len, fmt_dump shows the items within 16
   positions before and after pos, writes the sentinel once, immediately
   before the item at index pos, writes a leading '... ' exactly when items
   before the shown ones are omitted and a trailing '...' exactly when items
   after them are omitted. *)
C24_DumpMarksCurrent ==
    Done /\ cfg.kind = "Dump" /\ 0 < cfg.pos /\ cfg.pos < cfg.count =>
        /\ Shown = {i \in 0..(cfg.count - 1) : cfg.pos - 16 <= i /\ i <= cfg.pos + 16}
        /\ Cardinality(Heres) = 1
        /\ \A k \in Heres : k < Len(last.out) /\ last.out[k + 1] = ItemPiece(cfg.pos)
        /\ (last.out[1].text = "... ") <=> (cfg.pos - 16 > 0)
        /\ (last.out[Len(last.out)].text = "...") <=> (cfg.pos + 16 < cfg.count - 1)

(* --------------------------- the interpreter's tail -------------------- *)
\* ctx.next at the entry of the first InterpreterCont step
FirstTail == Opt(cfg.tail, Leaf("N"))

\* the SeqCont nodes not yet freed
Wrappers == {n \in Live(Machine) : heap[n].kind = "SeqCont"}

(* C25: when every executed word is a leaf, ctx.next at the entry of every
   InterpreterCont step is the continuation it was at the entry of the first
   step (empty stays empty), however many tokens have been processed, and the
   SeqCont wrappers built by one step are unwrapped before the next step. *)
C25_TailSteady ==
    cfg.kind = "InterpreterCont" /\ Running("InterpreterCont") =>
        /\ next = FirstTail
        /\ Wrappers = {}

C25_Witness ==
    /\ cfg.kind = "InterpreterCont" /\ Running("InterpreterCont") /\ cfg.tail
    /\ cfg.line = << "1", " ", "/" >> /\ trace = << "nop", "ab", "nop" >>
    /\ next = Leaf("N")

(* ---------------------------- the lexer's cursor ---------------------- *)
MaxCursor == 3

CursorConfigs ==
    {[NoCfg EXCEPT !.kind = "Cursor", !.line = t, !.count = 1] :
        t \in {Flatten(cs) : cs \in UNION {[1..n -> LexChars] : n \in 0..MaxCursor}}}

InitCursor ==
    /\ cfg \in CursorConfigs
    /\ Loaded([Empty(cfg) EXCEPT
                  !.blocks = Lexer_push_source_block(<< >>, SplitLines(cfg.line)),
                  !.last = NoCall])

Stepped(bl, via, data, n) ==
    Install([Machine EXCEPT
                !.blocks = bl,
                !.last = [via |-> via, res |-> IF Len(data) > 0 THEN "some" ELSE "none",
                          data |-> data, start |-> n, delimiter |-> "",
                          words_only |-> FALSE]])

CursorRuns == pc = "run" /\ cfg.kind = "Cursor" /\ ReadsLeft

CursorScanWord ==
    /\ CursorRuns
    /\ \E r \in {Lexer_scan_word(blocks)} :
          Stepped(r.blocks, "scan_word", r.token.data, r.token.start)

CursorScanUntil ==
    /\ CursorRuns
    /\ \E d \in Delimiters :
       \E r \in {Lexer_scan_until_delimiter(blocks, d)} :
          Stepped(r.blocks, "scan_until", r.token.data, r.token.start)

CursorSkipWhitespace ==
    CursorRuns /\ Stepped(Lexer_scan_skip_whitespace(blocks), "skip_whitespace", << >>, 0)

CursorSkipSymbol ==
    CursorRuns /\ Stepped(Lexer_skip_symbol(blocks), "skip_symbol", << >>, 0)

\* skip_while with a predicate that accepts the characters starting with one
\* of the given bytes
CursorSkipWhile ==
    /\ CursorRuns
    /\ \E accepted \in SUBSET {"a", " ", "C3"} :
          Stepped(Lexer_skip_while(blocks, accepted), "skip_while", << >>, 0)

CursorReadLine ==
    /\ CursorRuns
    /\ Stepped([blocks EXCEPT ![Len(blocks)] = read_line(blocks[Len(blocks)]).b],
               "read_line", << >>, 0)

\* rewind by the delta of a subtoken of the token scan_word just returned, as
\* InterpreterCont::run calls it; the step records the subtoken and the delta
CursorRewind ==
    /\ CursorRuns
    /\ last.via = "scan_word" /\ last.res = "some"
    /\ \E k \in 1..Len(Subtokens(last.data)) :
          LET subtoken == Subtokens(last.data)[k]
              n == Token_delta(last.data, subtoken)
          IN Install([Machine EXCEPT
                         !.blocks = Lexer_rewind(blocks, n),
                         !.last = [via |-> "rewind", res |-> "none", data |-> subtoken,
                                   start |-> n, delimiter |-> "", words_only |-> FALSE]])

NextCursor ==
    \/ CursorScanWord
    \/ CursorScanUntil
    \/ CursorSkipWhitespace
    \/ CursorSkipSymbol
    \/ CursorSkipWhile
    \/ CursorReadLine
    \/ CursorRewind

SpecCursor == InitCursor /\ [][NextCursor]_vars

TopBlock == blocks[Len(blocks)]

C26_InLine ==
    /\ 0 <= TopBlock.line_offset
    /\ TopBlock.line_offset <= Len(TopBlock.line)
    /\ IsCharBoundary(TopBlock.line, TopBlock.line_offset)
    /\ Lexer_get_position(blocks).line_offset_start <= Lexer_get_position(blocks).line_offset_end

C26_NoUnderflow == last'.via = "rewind" => last'.start <= TopBlock.line_offset

(* C26: after any sequence of scan_word, scan_until, skip_whitespace,
   skip_symbol, skip_while, read_line and rewind by the delta of a subtoken of
   the token just scanned, the offset of the top block lies within the current
   line, on a character boundary; rewind never subtracts more than the offset;
   get_position reports a start not after the end. *)
C26_CursorInvariant ==
    []C26_InLine /\ [][C26_NoUnderflow]_vars

C26_Witness ==
    /\ cfg.kind = "Cursor" /\ cfg.line = << " ", "a", "C3", "A9" >>
    /\ last.via = "rewind" /\ last.data = << "a" >> /\ last.start = 2
    /\ TopBlock.line_offset = 2

(* --------------------------- TimesCont, count 0 ------------------------ *)
\* the same scenario with count 1, run to its end
WithCountOne == Drive(Load([cfg EXCEPT !.count = 1]), Fuel)

\* slot is after composed with the tail the step found
Composed(slot) ==
    IF next = None THEN slot = heap[cur].after
    ELSE \/ heap[cur].after = None /\ slot = next
         \/ /\ slot # None /\ heap'[slot].kind = "SeqCont"
            /\ heap'[slot].first = heap[cur].after /\ heap'[slot].second = next

C27_ZeroStep ==
    Running("TimesCont") /\ heap[cur].count = 0 =>
        /\ cur' = heap[cur].body
        /\ Composed(next')
        /\ next' # None => heap'[next'].kind # "TimesCont"
        /\ \A n \in (Len(heap) + 1)..Len(heap') : heap'[n].kind # "TimesCont"
        /\ heap'[cur].count = 0

C27_ZeroRun ==
    /\ \A n \in 1..Len(heap) : heap[n].count >= 0
    /\ Done /\ cfg.kind = "TimesCont" /\ cfg.count = 0 =>
          /\ trace = << "b" >> \o AfterTrace \o TailTrace
          /\ trace = WithCountOne.trace
          /\ stack = WithCountOne.stack
          /\ WithCountOne.pc = "done"

(* C27: a TimesCont with count 0 behaves like count 1, uniquely owned or
   shared: body is yielded once, the node is not re-enqueued, count never
   drops below 0, and ctx.next becomes after composed with the previous
   tail. *)
C27_CountZero ==
    [][C27_ZeroStep]_vars /\ []C27_ZeroRun

C27_Witness ==
    /\ Done /\ cfg.kind = "TimesCont" /\ cfg.count = 0 /\ cfg.shared /\ cfg.after /\ cfg.tail
    /\ trace = << "b", "A", "N" >>

(* ----------------------- scan_until and the current line --------------- *)
\* scan_until reads a line only when the offset is at the end of the line
AtLineEnd(b) == Len(b.line) = 0 \/ b.line_offset >= Len(b.line)
SearchedLine(b) ==
    IF AtLineEnd(b) THEN (IF Len(b.buffer) > 0 THEN Head(b.buffer) ELSE << >>) ELSE b.line
SearchedFrom(b) == IF AtLineEnd(b) THEN 0 ELSE b.line_offset

C28_LineStep ==
    last'.via = "scan_until_delimiter" /\ Len(blocks) > 0 =>
        LET b == blocks[Len(blocks)]
            b2 == blocks'[Len(blocks')]
            ln == SearchedLine(b)
            from == SearchedFrom(b)
            hits == {i \in (from + 1)..Len(ln) : ln[i] = last'.delimiter}
        IN /\ b2.line = ln
           /\ b2.line_number = b.line_number + (IF AtLineEnd(b) THEN 1 ELSE 0)
           /\ ~AtLineEnd(b) => b2.buffer = b.buffer
           /\ IF hits = {}
              THEN /\ last'.res = (IF last'.delimiter = NullChar THEN "ok" ELSE "UnexpectedEof")
                   /\ Len(last'.data) = 0
                   /\ b2.line_offset = Len(ln)
                   /\ Remaining(b2) = Flatten(b2.buffer)
              ELSE /\ last'.res = "ok"
                   /\ last'.data = SubSeq(ln, from + 1, SetMin(hits) - 1)
                   /\ b2.line_offset = SetMin(hits)

(* C28: scan_until searches only the rest of the current line: when the
   delimiter does not occur between the offset and the end of that line it
   reports not-found (UnexpectedEof, or an empty token for the null
   delimiter), later lines notwithstanding, and leaves the offset at the end
   of the line, so the skipped text is not returned later; a new line is read
   only when the offset is at the end of the line on entry. *)
C28_CurrentLineOnly ==
    [][C28_LineStep]_vars

C28_Witness ==
    /\ cfg.kind = "Lexer" /\ cfg.line = << "a", " ", "\n", "|" >>
    /\ last.via = "scan_until_delimiter" /\ last.delimiter = "|"
    /\ last.res = "UnexpectedEof"
    /\ blocks[1].line = << "a", " ", "\n" >> /\ blocks[1].line_offset = 3
    /\ blocks[1].buffer = << << "|" >> >>
    /\ trace = << >>

====
